---- MODULE Spec2Model ----
(***************************************************************************)
(* Model of the card rendering engine of deck_pdf_generator                *)
(* (src/deck_pdf_generator: render.py with config.py, fonts.py, types.py   *)
(* and parser.py).                                                         *)
(*                                                                         *)
(* Lengths are integers in units of 1/25400 point, so that a millimetre    *)
(* (72/25.4 pt), a point, the factors 0.5, 0.35 and 0.66 and the division  *)
(* by 2 of the centring are all exact.  Python's float arithmetic is       *)
(* modelled by exact arithmetic on these units.                            *)
(*                                                                         *)
(* An optional integer (hp, atk, lootBudget) is <<>> for None and <<v>>    *)
(* for the value v.  An optional string is "" when it is None or empty:    *)
(* the code only ever tests such fields for truthiness.  A text that       *)
(* wrap_text scans is a sequence of one-character strings, "SP", "NL" and  *)
(* "BS" standing for the space, the newline and the backslash.             *)
(***************************************************************************)
EXTENDS Integers, Sequences, FiniteSets, TLC

VARIABLES
    cards,      \* render_pdf / draw_*: the card sequence handed to the engine
    color,      \* the color flag
    zero_gaps,  \* the zero_gaps flag
    cfg,        \* the layout attributes of the config module read by render_pdf
    theme,      \* the icon theme mappings of the config module
    env,        \* the environment: icon files, broken images, icon font, output directory
    xml,        \* parse_cards: the <card> elements of the document, in order
    tagsOf,     \* for each card of `cards`, the identity of the list its tags field holds (0: None)
    heap,       \* the tags lists that exist, by identity: the tags each holds
    fonts,      \* the globals of the fonts module and the fonts registered in pdfmetrics
    runs,       \* the fonts each call of ensure_fonts left bound to text and glyphs
    pc,         \* position of the run
    page,       \* render_pdf: loop variable `page`
    pos,        \* render_pdf: loop variable `pos`
    cur,        \* what has been drawn on the page that is not yet finalized
    doc,        \* the pages finalized by showPage, in order
    fs,         \* effects on the file system
    err,        \* the exception that left the run, "" when none
    text,       \* wrap_text: its text argument
    max_width,  \* wrap_text: its max_width argument
    lines       \* wrap_text: the list it returned

vars == <<cards, color, zero_gaps, cfg, theme, env, xml, tagsOf, heap, fonts, runs, pc, page, pos,
          cur, doc, fs, err, text, max_width, lines>>
inputs == <<cards, color, zero_gaps, cfg, theme, env, xml, tagsOf, heap>>
wrapVars == <<text, max_width, lines>>
runVars == <<page, pos, cur, doc, fs, err>>
fontVars == <<fonts, runs>>

----------------------------------------------------------------------------
(* Units: reportlab.lib.units.mm is 72/25.4 pt.                            *)

mm == 72000
pt == 25400

Min(a, b) == IF a <= b THEN a ELSE b
Max(a, b) == IF a >= b THEN a ELSE b

\* math.ceil(a / b) for a >= 0, b > 0
Ceil(a, b) == (a + b - 1) \div b

----------------------------------------------------------------------------
(* config.py: page, card and typography constants.                         *)

PAGE_W == 210 * mm
PAGE_H == 297 * mm
CARD_W == 62 * mm
CARD_H == 87 * mm
GRID_COLS == 3
GRID_ROWS == 3
PAGE_MARGIN_LEFT == 10 * mm
PAGE_MARGIN_RIGHT == 10 * mm
PAGE_MARGIN_Y == 10 * mm
GAP_X == 4 * mm
GAP_Y == 4 * mm
PADDING == 7 * (mm \div 2)
HEADER_H == 12 * mm
FOOTER_H == 8 * mm
BODY_SIZE == 9

\* The names the config module defines.  render.py also reads
\* config.STAT_SIZE and config.FRONT_BIOME_ICONS, which config.py never sets.
ConfigNames ==
    {"PAGE_SIZE", "CARD_W", "CARD_H", "GRID_COLS", "GRID_ROWS", "PAGE_MARGIN_LEFT",
     "PAGE_MARGIN_RIGHT", "PAGE_MARGIN_Y", "GAP_X", "GAP_Y", "BORDER_RADIUS",
     "PADDING", "HEADER_H", "FOOTER_H", "ICON_SIZE", "TITLE_SIZE", "SUBTITLE_SIZE",
     "BODY_SIZE", "COST_SIZE", "META_SIZE", "FONT_REG", "FONT_BOLD", "FONT_PATH_REG",
     "FONT_PATH_BOLD", "TYPE_ICONS", "FRONT_DECK_ICONS", "BACK_DECK_ICONS",
     "LOOT_FRONT_DEFAULTS", "DECK_COLORS"}

\* Reading config.<name>: an AttributeError when the module has no such name.
ConfigHas(name) == name \in ConfigNames

\* The layout attributes as config.py sets them.
ConfigPy ==
    [PAGE_W |-> PAGE_W, PAGE_H |-> PAGE_H, CARD_W |-> CARD_W, CARD_H |-> CARD_H,
     GRID_COLS |-> GRID_COLS, GRID_ROWS |-> GRID_ROWS,
     PAGE_MARGIN_LEFT |-> PAGE_MARGIN_LEFT, PAGE_MARGIN_RIGHT |-> PAGE_MARGIN_RIGHT,
     PAGE_MARGIN_Y |-> PAGE_MARGIN_Y, GAP_X |-> GAP_X, GAP_Y |-> GAP_Y]

----------------------------------------------------------------------------
(* Text: str.replace, str.split, str.strip, str.join and stringWidth.      *)

IsSpace(ch) == ch \in {"SP", "NL", "TAB"}

\* Width of a character in 1/1000 em of the model font.
CharWidth(ch) ==
    CASE ch = "W"  -> 1000
      [] ch = "SP" -> 300
      [] ch = "NL" -> 0
      [] OTHER     -> 600

RECURSIVE SumWidths(_)
SumWidths(s) == IF s = <<>> THEN 0 ELSE CharWidth(Head(s)) + SumWidths(Tail(s))

\* canvas.stringWidth(s, font, size), in length units
StringWidth(s, size) == (SumWidths(s) * size * 254) \div 10

\* text.replace('\\n', '\n'): every backslash followed by n becomes a newline
RECURSIVE Normalize(_)
Normalize(t) ==
    IF t = <<>> THEN <<>>
    ELSE IF Len(t) >= 2 /\ t[1] = "BS" /\ t[2] = "n"
         THEN <<"NL">> \o Normalize(SubSeq(t, 3, Len(t)))
         ELSE <<t[1]>> \o Normalize(Tail(t))

\* normalized.split('\n')
RECURSIVE SplitNewline(_)
SplitNewline(t) ==
    IF \A i \in 1..Len(t) : t[i] # "NL" THEN <<t>>
    ELSE LET i == CHOOSE j \in 1..Len(t) :
                      t[j] = "NL" /\ \A k \in 1..(j - 1) : t[k] # "NL"
         IN <<SubSeq(t, 1, i - 1)>> \o SplitNewline(SubSeq(t, i + 1, Len(t)))

\* s.split(): the maximal runs of non-whitespace characters
RECURSIVE SplitWords(_)
SplitWords(t) ==
    IF t = <<>> THEN <<>>
    ELSE IF IsSpace(t[1]) THEN SplitWords(Tail(t))
    ELSE LET k == CHOOSE j \in 1..Len(t) :
                      /\ \A i \in 1..j : ~IsSpace(t[i])
                      /\ (j = Len(t) \/ IsSpace(t[j + 1]))
         IN <<SubSeq(t, 1, k)>> \o SplitWords(SubSeq(t, k + 1, Len(t)))

\* s.strip()
RECURSIVE Strip(_)
Strip(s) ==
    IF s = <<>> THEN <<>>
    ELSE IF IsSpace(s[1]) THEN Strip(Tail(s))
    ELSE IF IsSpace(s[Len(s)]) THEN Strip(SubSeq(s, 1, Len(s) - 1))
    ELSE s

\* " ".join(ws)
RECURSIVE Join(_)
Join(ws) ==
    IF ws = <<>> THEN <<>>
    ELSE IF Len(ws) = 1 THEN ws[1]
    ELSE ws[1] \o <<"SP">> \o Join(Tail(ws))

----------------------------------------------------------------------------
(* wrap_text                                                               *)

\* The text argument None.
NoneText == <<"None">>

\* Faulty variant of WrapWord: a word that does not fit on an empty line is lost.
WrapWordLost(st, w, width, size) ==
    LET trial == Strip(Join(Append(st.cur, w)))
    IN  IF trial = <<>> THEN st
        ELSE IF StringWidth(trial, size) <= width
             THEN [st EXCEPT !.cur = Append(@, w)]
        ELSE IF st.cur # <<>>
             THEN [lines |-> Append(st.lines, Join(st.cur)), cur |-> <<w>>]
        ELSE st

\* Faulty variant of WrapWord: the word alone is measured, not the trial line.
WrapWordAlone(st, w, width, size) ==
    LET trial == Strip(Join(Append(st.cur, w)))
    IN  IF trial = <<>> THEN st
        ELSE IF StringWidth(w, size) <= width
             THEN [st EXCEPT !.cur = Append(@, w)]
        ELSE IF st.cur # <<>>
             THEN [lines |-> Append(st.lines, Join(st.cur)), cur |-> <<w>>]
        ELSE [st EXCEPT !.lines = Append(@, w)]

\* Faulty variant of WrapWord: the trial line is measured with a trailing space.
WrapWordTrailingSpace(st, w, width, size) ==
    LET trial == Strip(Join(Append(st.cur, w)))
    IN  IF trial = <<>> THEN st
        ELSE IF StringWidth(Append(trial, "SP"), size) <= width
             THEN [st EXCEPT !.cur = Append(@, w)]
        ELSE IF st.cur # <<>>
             THEN [lines |-> Append(st.lines, Join(st.cur)), cur |-> <<w>>]
        ELSE [st EXCEPT !.lines = Append(@, w)]

\* One iteration of `for w in words` on the loop state [lines, cur]:
\* a word that does not fit is kept, it starts the next line or stands alone.
WrapWord(st, w, width, size) ==
    LET trial == Strip(Join(Append(st.cur, w)))
    IN  IF trial = <<>> THEN st
        ELSE IF StringWidth(trial, size) <= width
             THEN [st EXCEPT !.cur = Append(@, w)]
        ELSE IF st.cur # <<>>
             THEN [lines |-> Append(st.lines, Join(st.cur)), cur |-> <<w>>]
        ELSE [st EXCEPT !.lines = Append(@, w)]

RECURSIVE WrapWords(_, _, _, _)
WrapWords(st, words, width, size) ==
    IF words = <<>> THEN st
    ELSE WrapWords(WrapWord(st, Head(words), width, size), Tail(words), width, size)

\* Faulty variant of WrapParagraph: an empty paragraph yields no line.
WrapParagraphCollapsed(out, para, width, size) ==
    IF Strip(para) = <<>> THEN out
    ELSE LET st == WrapWords([lines |-> out, cur |-> <<>>], SplitWords(para), width, size)
         IN  IF st.cur # <<>> THEN Append(st.lines, Join(st.cur)) ELSE st.lines

\* One iteration of `for p_idx, para in enumerate(paragraphs)` on `lines`.
WrapParagraph(out, para, width, size) ==
    IF Strip(para) = <<>> THEN Append(out, <<>>)
    ELSE LET st == WrapWords([lines |-> out, cur |-> <<>>], SplitWords(para), width, size)
         IN  IF st.cur # <<>> THEN Append(st.lines, Join(st.cur)) ELSE st.lines

RECURSIVE WrapParagraphs(_, _, _, _)
WrapParagraphs(out, paras, width, size) ==
    IF paras = <<>> THEN out
    ELSE WrapParagraphs(WrapParagraph(out, Head(paras), width, size),
                        Tail(paras), width, size)

wrap_text(t, width, size) ==
    LET paragraphs == IF t = NoneText THEN << <<>> >> ELSE SplitNewline(Normalize(t))
    IN  WrapParagraphs(<<>>, paragraphs, width, size)

----------------------------------------------------------------------------
(* Cards (types.py) and the icon theme (config.py).                        *)

None == <<>>
Some(v) == <<v>>

\* Faulty variant of Truthy: `is not None` in place of truthiness.
TruthyNotNone(o) == o # None

\* Python truthiness of an optional integer: neither None nor 0.
Truthy(o) == o # None /\ o[1] # 0

\* d.get(k, default)
Get(d, k, default) == IF k \in DOMAIN d THEN d[k] ELSE default

\* The strings of more than one character that occur as icon texts, with
\* their first character s[0]; every other icon text is a single character.
FirstCharOf == [swordsVS |-> "swords", sword |-> "s", skull |-> "s"]
FirstChar(s) == IF s \in DOMAIN FirstCharOf THEN FirstCharOf[s] ELSE s

\* A theme whose source files are missing or malformed: empty mappings.
EmptyTheme ==
    [TYPE_ICONS |-> <<>>, FRONT_DECK_ICONS |-> <<>>, BACK_DECK_ICONS |-> <<>>,
     LOOT_FRONT_DEFAULTS |-> <<>>, DECK_COLORS |-> <<>>]

\* A theme as load_type_icons / load_front_icons build it from their files.
SampleTheme ==
    [TYPE_ICONS |-> [monster |-> "dragon", attack |-> "swordsVS", coin |-> "coin"],
     FRONT_DECK_ICONS |-> [monster |-> "dragon"],
     BACK_DECK_ICONS |-> [loot |-> "chest", monster |-> "skull"],
     LOOT_FRONT_DEFAULTS |-> [weapon |-> "sword"],
     DECK_COLORS |-> [monster |-> "red"]]

\* A theme whose front_icons.xml gives the deck "loot" no back glyph.
NoLootBackTheme ==
    [TYPE_ICONS |-> [weapon |-> "blade", coin |-> "coin"],
     FRONT_DECK_ICONS |-> [monster |-> "dragon"],
     BACK_DECK_ICONS |-> [monster |-> "skull"],
     LOOT_FRONT_DEFAULTS |-> [weapon |-> "sword"],
     DECK_COLORS |-> <<>>]

icon_for(card, th) ==
    IF card.type \in DOMAIN th.TYPE_ICONS THEN th.TYPE_ICONS[card.type]
    ELSE IF card.school # "" /\ card.school \in DOMAIN th.TYPE_ICONS
         THEN th.TYPE_ICONS[card.school]
    ELSE "bullet"

\* os.path.exists(os.path.join("icons", f"{key}.png"))
IconExists(ev, key) == key \in ev.icons
\* c.drawImage(path, ...) returns normally
ImageDraws(ev, key) == key \notin ev.bad
\* c.drawString / c.drawCentredString of an icon glyph returns normally
GlyphDraws(ev) == ~ev.glyphErr

----------------------------------------------------------------------------
(* fonts.py: the module globals and ensure_fonts.  A font file is named by *)
(* its path; ttf[p] is "missing", "ok" or "bad" (a file TTFont or          *)
(* registerFont raises on).  The path None is "".                          *)

\* The globals as the module sets them at import, nothing registered yet.
FontsPy ==
    [FONT_REG |-> "DejaVuSans", FONT_BOLD |-> "DejaVuSans-Bold",
     FONT_PATH_REG |-> "dejavu/DejaVuSans.ttf", FONT_PATH_BOLD |-> "dejavu/DejaVuSans-Bold.ttf",
     ICON_FONT |-> "Symbola", ICON_FONT_PATH |-> "", registered |-> <<>>]

\* ensure_fonts: symbola_candidates
SymbolaCandidates ==
    <<"Symbola/Symbola.ttf", "symbola/Symbola.ttf", "ancient-scripts/Symbola_hint.ttf",
      "local/Symbola.ttf", "home/Symbola.ttf">>

\* pdfmetrics.registerFont(TTFont(name, p))
Register(f, name, p) == [f EXCEPT !.registered = (name :> p) @@ @]

\* ensure_fonts: `for p in symbola_candidates`
RECURSIVE IconLoop(_, _, _)
IconLoop(f, cands, ttf) ==
    IF cands = <<>> THEN f
    ELSE IF ttf[Head(cands)] = "missing" THEN IconLoop(f, Tail(cands), ttf)
    ELSE IF ttf[Head(cands)] = "ok"
         THEN Register([f EXCEPT !.ICON_FONT_PATH = Head(cands)], f.ICON_FONT, Head(cands))
    ELSE IconLoop([f EXCEPT !.ICON_FONT_PATH = ""], Tail(cands), ttf)

\* ensure_fonts: `for p in candidates_reg`; ok is reg_registered
RECURSIVE RegLoop(_, _, _)
RegLoop(f, cands, ttf) ==
    IF cands = <<>> THEN [f |-> f, ok |-> FALSE]
    ELSE IF ttf[Head(cands)] = "missing" THEN RegLoop(f, Tail(cands), ttf)
    ELSE IF ttf[Head(cands)] = "ok"
         THEN [f |-> Register([f EXCEPT !.FONT_PATH_REG = Head(cands)], f.FONT_REG, Head(cands)),
               ok |-> TRUE]
    ELSE RegLoop([f EXCEPT !.FONT_PATH_REG = Head(cands)], Tail(cands), ttf)

\* ensure_fonts: `for p in candidates_bold`; ok is bold_registered
RECURSIVE BoldLoop(_, _, _)
BoldLoop(f, cands, ttf) ==
    IF cands = <<>> THEN [f |-> f, ok |-> FALSE]
    ELSE IF ttf[Head(cands)] = "missing" THEN BoldLoop(f, Tail(cands), ttf)
    ELSE IF ttf[Head(cands)] = "ok"
         THEN [f |-> Register([f EXCEPT !.FONT_PATH_BOLD = Head(cands)], f.FONT_BOLD, Head(cands)),
               ok |-> TRUE]
    ELSE BoldLoop([f EXCEPT !.FONT_PATH_BOLD = Head(cands)], Tail(cands), ttf)

\* ensure_fonts(): the globals and the registry it leaves
ensure_fonts(f, ttf) ==
    LET candidates_reg  == <<f.FONT_PATH_REG, "dejavu/DejaVuSans.ttf", "freefont/FreeSans.ttf">>
        candidates_bold == <<f.FONT_PATH_BOLD, "dejavu/DejaVuSans-Bold.ttf",
                             "freefont/FreeSansBold.ttf">>
        ic == IconLoop(f, SymbolaCandidates, ttf)
        r  == RegLoop(ic, candidates_reg, ttf)
        b  == BoldLoop(r.f, candidates_bold, ttf)
    IN  IF ~r.ok \/ ~b.ok
        THEN [b.f EXCEPT !.FONT_REG = "Helvetica", !.FONT_BOLD = "Helvetica-Bold"]
        ELSE b.f

\* c.setFont(name, size): the font the name is bound to, a registered file
\* or else the built-in font of that name
FontOf(f, name) ==
    IF name \in DOMAIN f.registered THEN f.registered[name]
    ELSE IF name \in {"Helvetica", "Helvetica-Bold"} THEN "builtin"
    ELSE "unknown"

\* The fonts render.py draws with: fonts.FONT_REG, fonts.FONT_BOLD and
\* `fonts.ICON_FONT if fonts.ICON_FONT_PATH else fonts.FONT_REG`.
BoundFonts(f) ==
    [reg  |-> FontOf(f, f.FONT_REG),
     bold |-> FontOf(f, f.FONT_BOLD),
     icon |-> FontOf(f, IF f.ICON_FONT_PATH # "" THEN f.ICON_FONT ELSE f.FONT_REG)]

----------------------------------------------------------------------------
(* parse_cards (parser.py).  An attribute value is a string, "" when the   *)
(* attribute is absent.  A <card> element is a record of its attributes,   *)
(* its text, its <loot> child (None when there is none) and its variant    *)
(* children: a function from the names of the children present to their    *)
(* attributes.                                                             *)

\* The decimal numerals that occur as attribute values, with int(s).
IntOf == ("0" :> 0) @@ ("1" :> 1) @@ ("2" :> 2) @@ ("3" :> 3) @@ ("5" :> 5) @@ ("-1" :> (-1))

\* int(s): None stands for the ValueError of a string that is no numeral
ParseInt(s) == IF s \in DOMAIN IntOf THEN Some(IntOf[s]) ELSE None

\* parse_cards: school_icon_map
SchoolIconMap ==
    [attack |-> "swordsVS", defense |-> "shield", spell |-> "sparkles", utility |-> "gear"]

\* parse_cards: the variant children in the order they are looked for
VariantOrder == <<"monster", "biome", "npc", "quest", "curse", "health">>

\* the first variant child of the element, "" when it has none
FirstVariant(node) ==
    IF \A i \in DOMAIN VariantOrder : VariantOrder[i] \notin DOMAIN node.children THEN ""
    ELSE VariantOrder[CHOOSE i \in DOMAIN VariantOrder :
                          /\ VariantOrder[i] \in DOMAIN node.children
                          /\ \A j \in 1..(i - 1) : VariantOrder[j] \notin DOMAIN node.children]

\* parse_cards: cost of a card with a <loot> child
LootCost(loot) ==
    IF loot.cost = "" THEN 0
    ELSE IF ParseInt(loot.cost) = None THEN 0 ELSE ParseInt(loot.cost)[1]

\* parse_cards: cost of a card without a <loot> child
PlainCost(node) ==
    LET cost_str == IF node.cost = "" THEN "0" ELSE node.cost
    IN  IF ParseInt(cost_str) = None THEN 0 ELSE ParseInt(cost_str)[1]

\* Faulty variant of LootFrontIcon: the school is not looked at.
LootFrontIconNoSchool(loot, th) ==
    LET ctype == IF loot.lootType = "" THEN "ability" ELSE loot.lootType
    IN  IF loot.front_icon # "" THEN loot.front_icon
        ELSE Get(th.LOOT_FRONT_DEFAULTS, ctype, "")

\* parse_cards: front_icon of a card with a <loot> child
LootFrontIcon(loot, th) ==
    LET ctype == IF loot.lootType = "" THEN "ability" ELSE loot.lootType
    IN  IF loot.front_icon # "" THEN loot.front_icon
        ELSE IF loot.school # "" /\ loot.school \in DOMAIN SchoolIconMap
             THEN SchoolIconMap[loot.school]
        ELSE Get(th.LOOT_FRONT_DEFAULTS, ctype, "")

\* parse_cards: front_icon of a card without a <loot> child
PlainFrontIcon(node, th) ==
    LET v == FirstVariant(node)
    IN  IF node.front_icon # "" THEN node.front_icon
        ELSE IF v = "" THEN ""
        ELSE IF node.children[v].front_icon # "" THEN node.children[v].front_icon
        ELSE Get(th.FRONT_DECK_ICONS, v, "")

\* parse_cards: int(s) if the attribute is given, None when it is absent or no numeral
StatOf(s) == IF s = "" THEN None ELSE ParseInt(s)

\* parse_cards: count, at least 1
CountOf(node) ==
    LET count_str == IF node.count = "" THEN "1" ELSE node.count
    IN  IF ParseInt(count_str) = None THEN 1
        ELSE IF ParseInt(count_str)[1] < 1 THEN 1 ELSE ParseInt(count_str)[1]

\* Faulty variant of ParseCard: a <biome> child sets the biome of the Card.
ParseCardBiome(node, th) ==
    LET v == FirstVariant(node)
        looked == node.loot = None /\ node.front_icon = "" /\ v # ""
        ctype == IF node.loot # None
                 THEN (IF node.loot[1].lootType = "" THEN "ability" ELSE node.loot[1].lootType)
                 ELSE IF looked /\ node.type = "" THEN v
                 ELSE IF node.type = "" THEN "ability" ELSE node.type
        m == IF "monster" \in DOMAIN node.children THEN Some(node.children["monster"]) ELSE None
    IN  [type |-> ctype,
         cost |-> IF node.loot # None THEN LootCost(node.loot[1]) ELSE PlainCost(node),
         lootBudget |-> IF m = None THEN None ELSE StatOf(m[1].lootBudget),
         hp |-> IF m = None THEN None ELSE StatOf(m[1].hp),
         atk |-> IF m = None THEN None ELSE StatOf(m[1].atk),
         biome |-> IF "biome" \in DOMAIN node.children THEN "forest" ELSE "", back_icon |-> "",
         school |-> IF node.loot # None THEN node.loot[1].school ELSE node.school,
         front_icon |-> IF node.loot # None THEN LootFrontIcon(node.loot[1], th)
                        ELSE PlainFrontIcon(node, th),
         deck |-> IF node.loot # None THEN "loot" ELSE IF looked THEN v ELSE "",
         effect |-> Strip(node.text)]

\* parse_cards: the Card built from one <card> element
ParseCard(node, th) ==
    LET v == FirstVariant(node)
        looked == node.loot = None /\ node.front_icon = "" /\ v # ""
        ctype == IF node.loot # None
                 THEN (IF node.loot[1].lootType = "" THEN "ability" ELSE node.loot[1].lootType)
                 ELSE IF looked /\ node.type = "" THEN v
                 ELSE IF node.type = "" THEN "ability" ELSE node.type
        m == IF "monster" \in DOMAIN node.children THEN Some(node.children["monster"]) ELSE None
    IN  [type |-> ctype,
         cost |-> IF node.loot # None THEN LootCost(node.loot[1]) ELSE PlainCost(node),
         lootBudget |-> IF m = None THEN None ELSE StatOf(m[1].lootBudget),
         hp |-> IF m = None THEN None ELSE StatOf(m[1].hp),
         atk |-> IF m = None THEN None ELSE StatOf(m[1].atk),
         biome |-> "", back_icon |-> "",
         school |-> IF node.loot # None THEN node.loot[1].school ELSE node.school,
         front_icon |-> IF node.loot # None THEN LootFrontIcon(node.loot[1], th)
                        ELSE PlainFrontIcon(node, th),
         deck |-> IF node.loot # None THEN "loot" ELSE IF looked THEN v ELSE "",
         effect |-> Strip(node.text)]

\* `for _ in range(count): cards.append(Card(...))`
Copies(card, n) == [i \in 1..n |-> card]

\* tags_raw.split(",")
RECURSIVE SplitComma(_)
SplitComma(t) ==
    IF \A i \in 1..Len(t) : t[i] # "," THEN <<t>>
    ELSE LET i == CHOOSE j \in 1..Len(t) :
                      t[j] = "," /\ \A k \in 1..(j - 1) : t[k] # ","
         IN  <<SubSeq(t, 1, i - 1)>> \o SplitComma(SubSeq(t, i + 1, Len(t)))

RECURSIVE StripEach(_)
StripEach(ps) ==
    IF ps = <<>> THEN <<>>
    ELSE (IF Strip(Head(ps)) = <<>> THEN <<>> ELSE <<Strip(Head(ps))>>) \o StripEach(Tail(ps))

\* parse_cards: tags = [t.strip() for t in tags_raw.split(",") if t.strip()]
ParseTags(tags_raw) == StripEach(SplitComma(tags_raw))

\* parse_cards builds one tags list for each <card> element (line 27); the
\* list of the k-th element is the object k.
TagLists(nodes) == [k \in DOMAIN nodes |-> ParseTags(nodes[k].tags)]

\* `tags=tags` (line 143): every Card built from the element, the k-th of the
\* document, holds the list object k
RECURSIVE TagsOfCards(_, _)
TagsOfCards(nodes, k) ==
    IF nodes = <<>> THEN <<>>
    ELSE Copies(k, CountOf(Head(nodes))) \o TagsOfCards(Tail(nodes), k + 1)

\* parse_cards(xml_path), the theme being the config module's mappings
RECURSIVE parse_cards(_, _)
parse_cards(nodes, th) ==
    IF nodes = <<>> THEN <<>>
    ELSE Copies(ParseCard(Head(nodes), th), CountOf(Head(nodes))) \o parse_cards(Tail(nodes), th)

----------------------------------------------------------------------------
(* Drawing operations.  A draw function yields the operations it put on    *)
(* the canvas, in order, and the exception that left it ("" when none).    *)

\* The field y of an operation is the baseline of the text it draws, above
\* the bottom edge of the card; it is 0 where the model does not follow it.
Op(kind, txt) == [kind |-> kind, text |-> txt, items |-> <<>>, line |-> <<>>, y |-> 0]
\* A drawn number: the field it shows, the glyph before it and the integer
\* whose decimal numeral is drawn.
Item(field, glyph, num) == [field |-> field, glyph |-> glyph, num |-> num]
NumOp(kind, glyph, num) ==
    [kind |-> kind, text |-> "", items |-> <<Item("cost", glyph, num)>>, line |-> <<>>, y |-> 0]
LineOp(kind, ln, y) == [kind |-> kind, text |-> "", items |-> <<>>, line |-> ln, y |-> y]

Take(s, n) == SubSeq(s, 1, Min(n, Len(s)))

\* draw_card: the value shown as cost, loot-budget for a monster that has one
DisplayCost(card) ==
    IF card.type = "monster" /\ card.lootBudget # None THEN card.lootBudget
    ELSE Some(card.cost)

\* draw_card: `if display_cost:` draws the top-right cost glyph
FrontCostOps(card, th) ==
    IF Truthy(DisplayCost(card))
    THEN <<NumOp("cost", Get(th.TYPE_ICONS, "coin", "diamond"), DisplayCost(card)[1])>>
    ELSE <<>>

\* draw_card: the large front icon, an image or else a glyph; a glyph that
\* cannot be drawn is logged and the icon left out (lines 158-174)
LargeIconOps(card, th, ev) ==
    LET icon_text == Get(th.TYPE_ICONS, card.front_icon, card.front_icon)
    IN  IF IconExists(ev, card.front_icon) /\ ImageDraws(ev, card.front_icon)
        THEN <<Op("large_image", card.front_icon)>>
        ELSE IF GlyphDraws(ev) THEN <<Op("large_glyph", icon_text)>>
        ELSE <<>>

\* draw_card: the small header icon, an image or else the glyph left_icon_text
SmallIconOps(card, th, ev) ==
    LET left_icon_text == Get(th.TYPE_ICONS, card.type, icon_for(card, th))
    IN  IF IconExists(ev, card.type) /\ ImageDraws(ev, card.type)
        THEN <<Op("small_image", card.type)>>
        ELSE IF GlyphDraws(ev) THEN <<Op("small_glyph", left_icon_text)>>
        ELSE <<>>

\* draw_card: the drawString of the small header glyph (lines 185, 190, 203,
\* 208) is inside no try block, its exception leaves draw_card
SmallIconRaises(card, ev) ==
    ~(IconExists(ev, card.type) /\ ImageDraws(ev, card.type)) /\ ~GlyphDraws(ev)

\* draw_card: top of the body text below the large icon, relative to y
BodyTopWithIcon(w, h) ==
    LET header_y_bottom == h - PADDING - HEADER_H
        large_size      == Min(w \div 2, (h * 35) \div 100)
        content_top     == header_y_bottom - 4 * pt
        content_bottom  == PADDING + FOOTER_H
        icon_center_y   == content_bottom + ((content_top - content_bottom) * 66) \div 100
    IN  icon_center_y - large_size \div 2 - 4 * pt

BodyTop(card, w, h) ==
    IF card.front_icon # "" THEN BodyTopWithIcon(w, h)
    ELSE (h - PADDING - HEADER_H) - 4 * pt

\* draw_card: max_lines = int(body_h / (BODY_SIZE + 2)) if body_h > 0 else 1
MaxLines(card, w, h) ==
    LET body_h == BodyTop(card, w, h) - (PADDING + FOOTER_H)
    IN  IF body_h > 0 THEN body_h \div ((BODY_SIZE + 2) * pt) ELSE 1

\* `for ln in lines: c.drawString(ix, line_y, ln); line_y -= (BODY_SIZE + 2)`
RECURSIVE LineOps(_, _)
LineOps(ls, line_y) ==
    IF ls = <<>> THEN <<>>
    ELSE <<LineOp("body", Head(ls), line_y)>> \o LineOps(Tail(ls), line_y - (BODY_SIZE + 2) * pt)

\* draw_card: the body lines, the first at line_y = body_top - BODY_SIZE
BodyOps(card, w, h) ==
    LineOps(Take(wrap_text(card.effect, w - 2 * PADDING, BODY_SIZE), MaxLines(card, w, h)),
            BodyTop(card, w, h) - BODY_SIZE * pt)

\* draw_card: stats_y = body_bottom - (STAT_SIZE + 2) with body_bottom =
\* PADDING + FOOTER_H + (STAT_SIZE + 4), whatever STAT_SIZE is
StatsY == PADDING + FOOTER_H + 2 * pt

\* draw_card: the monster stats row
StatsOps(card, th) ==
    LET hp  == IF card.hp # None THEN <<Item("hp", "heart", card.hp[1])>> ELSE <<>>
        atk == IF card.atk # None THEN <<Item("atk", "swords", card.atk[1])>> ELSE <<>>
        lb  == IF card.lootBudget # None
               THEN <<Item("lootBudget", Get(th.TYPE_ICONS, "coin", "diamond"),
                           card.lootBudget[1])>>
               ELSE <<>>
        stat_parts == hp \o atk \o lb
    IN  IF card.type = "monster" /\ stat_parts # <<>>
        THEN <<[kind |-> "stats", text |-> "", items |-> stat_parts, line |-> <<>>, y |-> StatsY]>>
        ELSE <<>>

\* draw_card(c, card, x, y, w, h, color)
draw_card(card, w, h, col, th, ev) ==
    LET deck_name == IF card.deck # "" THEN card.deck ELSE "loot"
        frame == <<Op("border", "")>>
                 \o (IF col THEN <<Op("header_band", Get(th.DECK_COLORS, deck_name, "whitesmoke"))>>
                     ELSE <<>>)
                 \o <<Op("cut_marks", "")>>
                 \o FrontCostOps(card, th)
        icons == (IF card.front_icon # "" THEN LargeIconOps(card, th, ev) ELSE <<>>)
                 \o SmallIconOps(card, th, ev)
        texts == <<Op("title", ""), Op("subtitle", ""), Op("meta", "")>> \o BodyOps(card, w, h)
        tail  == StatsOps(card, th) \o <<Op("footer", "")>>
    IN  IF card.type = "monster" /\ card.biome # "" /\ ~ConfigHas("FRONT_BIOME_ICONS")
        THEN [ops |-> frame, raised |-> "AttributeError"]
        ELSE IF SmallIconRaises(card, ev)
        THEN [ops |-> frame \o icons, raised |-> "Exception"]
        ELSE IF ~ConfigHas("STAT_SIZE")
        THEN [ops |-> frame \o icons \o texts, raised |-> "AttributeError"]
        ELSE [ops |-> frame \o icons \o texts \o tail, raised |-> ""]

\* Faulty variant of BackIconText: the loot kind is looked at before the deck.
BackIconTextKindFirst(co, th) ==
    LET dflt == Get(th.BACK_DECK_ICONS, "loot", Get(th.TYPE_ICONS, "coin", "diamond"))
    IN  IF co = None THEN dflt
        ELSE LET card == co[1]
             IN  IF card.back_icon # "" THEN FirstChar(card.back_icon)
                 ELSE IF card.type \in DOMAIN th.LOOT_FRONT_DEFAULTS
                      THEN FirstChar(dflt)
                 ELSE IF card.deck # "" /\ card.deck \in DOMAIN th.BACK_DECK_ICONS
                      THEN FirstChar(th.BACK_DECK_ICONS[card.deck])
                 ELSE FirstChar(icon_for(card, th))

\* draw_back: the glyph chosen for the back, for a card or for an empty slot
BackIconText(co, th) ==
    LET dflt == Get(th.BACK_DECK_ICONS, "loot", Get(th.TYPE_ICONS, "coin", "diamond"))
    IN  IF co = None THEN dflt
        ELSE LET card == co[1]
             IN  IF card.back_icon # "" THEN FirstChar(card.back_icon)
                 ELSE IF card.deck # "" /\ card.deck \in DOMAIN th.BACK_DECK_ICONS
                      THEN FirstChar(th.BACK_DECK_ICONS[card.deck])
                 ELSE IF card.type \in DOMAIN th.LOOT_FRONT_DEFAULTS
                      THEN FirstChar(dflt)
                 ELSE FirstChar(icon_for(card, th))

\* draw_back: the image chosen for the back, "" when none
BackImage(co, ev) ==
    IF co = None THEN ""
    ELSE LET card == co[1]
         IN  IF card.back_icon # ""
             THEN (IF IconExists(ev, card.back_icon) THEN card.back_icon ELSE "")
             ELSE (IF IconExists(ev, card.type) THEN card.type ELSE "")

\* draw_back: `if card is not None and getattr(card, 'cost', 0):`
BackCostOps(co) ==
    IF co # None /\ Truthy(Some(co[1].cost))
    THEN <<NumOp("back_cost", "", co[1].cost)>>
    ELSE <<>>

\* draw_back(c, card, x, y, w, h, color)
draw_back(co, w, h, col, th, ev) ==
    LET deck_name == IF co # None /\ co[1].deck # "" THEN co[1].deck ELSE "loot"
        img   == BackImage(co, ev)
        fill  == <<Op("border", "")>>
                 \o (IF col THEN <<Op("back_fill", Get(th.DECK_COLORS, deck_name, "lightblue"))>>
                     ELSE <<>>)
        frame == fill
                 \o (IF img # "" /\ ImageDraws(ev, img)
                     THEN <<Op("back_image", img)>>
                     ELSE IF GlyphDraws(ev)
                     THEN <<Op("back_glyph", FirstChar(BackIconText(co, th)))>>
                     ELSE <<>>)
                 \o BackCostOps(co)
        label == <<Op("label", deck_name)>>
    IN  IF img = "" /\ ~GlyphDraws(ev)
        THEN [ops |-> fill, raised |-> "Exception"]
        ELSE IF co # None /\ co[1].type = "monster" /\ co[1].biome # ""
           /\ ~ConfigHas("FRONT_BIOME_ICONS")
        THEN [ops |-> frame, raised |-> "AttributeError"]
        ELSE [ops |-> frame \o label, raised |-> ""]

----------------------------------------------------------------------------
(* The standalone script src/render_cards.py: its own wrap_text, draw_card *)
(* and draw_back.  Its icon_for, its geometry of a card, its ensure_fonts  *)
(* and its theme loading are those of the package, line for line.          *)

\* wrap_text of the script: newlines are word breaks like spaces, and a
\* literal backslash-n is left as it is
script_wrap_text(t, width, size) ==
    LET st == WrapWords([lines |-> <<>>, cur |-> <<>>], SplitWords(t), width, size)
    IN  IF st.cur # <<>> THEN Append(st.lines, Join(st.cur)) ELSE st.lines

\* draw_card of the script: max_lines = max(1, int(body_h / (BODY_SIZE + 2)))
ScriptMaxLines(card, w, h) ==
    LET body_h == BodyTop(card, w, h) - (PADDING + FOOTER_H)
    IN  Max(1, IF body_h >= 0 THEN body_h \div ((BODY_SIZE + 2) * pt) ELSE 0)

\* draw_card of the script (lines 452-589): the cost is drawn whatever its
\* value; the glyph that stands in for a large image, and the small header
\* glyph, are drawn outside any try block
script_draw_card(card, w, h, col, th, ev) ==
    LET frame == <<Op("border", "")>>
                 \o (IF col THEN <<Op("header_band", "whitesmoke")>> ELSE <<>>)
                 \o <<Op("cut_marks", "")>>
                 \o <<NumOp("cost", Get(th.TYPE_ICONS, "coin", "diamond"), card.cost)>>
        hasLarge == card.front_icon # ""
        largeImg == IconExists(ev, card.front_icon) /\ ImageDraws(ev, card.front_icon)
        smallImg == IconExists(ev, card.type) /\ ImageDraws(ev, card.type)
        large == IF ~hasLarge THEN <<>>
                 ELSE IF largeImg THEN <<Op("large_image", card.front_icon)>>
                 ELSE <<Op("large_glyph", Get(th.TYPE_ICONS, card.front_icon, card.front_icon))>>
        small == IF smallImg THEN <<Op("small_image", card.type)>>
                 ELSE <<Op("small_glyph", icon_for(card, th))>>
        body  == LineOps(Take(script_wrap_text(card.effect, w - 2 * PADDING, BODY_SIZE),
                              ScriptMaxLines(card, w, h)),
                         BodyTop(card, w, h) - (BODY_SIZE + 2) * pt)
        texts == <<Op("title", ""), Op("subtitle", ""), Op("meta", "")>> \o body
                 \o <<Op("footer", "")>>
    IN  IF hasLarge /\ ~largeImg /\ ~GlyphDraws(ev)
        THEN [ops |-> frame, raised |-> "Exception"]
        ELSE IF ~smallImg /\ ~GlyphDraws(ev)
        THEN [ops |-> frame \o large, raised |-> "Exception"]
        ELSE [ops |-> frame \o large \o small \o texts, raised |-> ""]

\* draw_back of the script (lines 592-654): the glyph is not cut to its
\* first character, the color fill is drawn after the icon, the cost of a
\* card is drawn whatever its value and the label is fixed
script_draw_back(co, w, h, col, th, ev) ==
    LET dflt == Get(th.BACK_DECK_ICONS, "loot", Get(th.TYPE_ICONS, "coin", "diamond"))
        icon_text ==
            IF co = None THEN dflt
            ELSE IF co[1].deck # "" /\ co[1].deck \in DOMAIN th.BACK_DECK_ICONS
                 THEN th.BACK_DECK_ICONS[co[1].deck]
            ELSE IF co[1].type \in DOMAIN th.LOOT_FRONT_DEFAULTS THEN dflt
            ELSE icon_for(co[1], th)
        img == IF co # None /\ IconExists(ev, co[1].type) THEN co[1].type ELSE ""
        icon == IF img # "" /\ ImageDraws(ev, img) THEN <<Op("back_image", img)>>
                ELSE <<Op("back_glyph", icon_text)>>
        rest == (IF col THEN <<Op("back_fill", "lightblue")>> ELSE <<>>)
                \o (IF co # None THEN <<NumOp("back_cost", "", co[1].cost)>> ELSE <<>>)
                \o <<Op("label", "")>>
    IN  IF ~(img # "" /\ ImageDraws(ev, img)) /\ ~GlyphDraws(ev)
        THEN [ops |-> <<Op("border", "")>>, raised |-> "Exception"]
        ELSE [ops |-> <<Op("border", "")>> \o icon \o rest, raised |-> ""]

----------------------------------------------------------------------------
(* render_pdf: layout.                                                     *)

GapX(g, zg) == IF zg THEN 0 ELSE g.GAP_X
GapY(g, zg) == IF zg THEN 0 ELSE g.GAP_Y
GridW(g, zg) == g.GRID_COLS * g.CARD_W + (g.GRID_COLS - 1) * GapX(g, zg)
GridH(g, zg) == g.GRID_ROWS * g.CARD_H + (g.GRID_ROWS - 1) * GapY(g, zg)
\* start_x = (page_w - grid_w) / 2
StartX(g, zg) == (g.PAGE_W - GridW(g, zg)) \div 2
\* start_y = page_h - config.PAGE_MARGIN_Y - grid_h
StartY(g, zg) == g.PAGE_H - g.PAGE_MARGIN_Y - GridH(g, zg)
\* the margin warning of render_pdf is printed
MarginWarning(g, zg) ==
    \/ StartX(g, zg) < g.PAGE_MARGIN_LEFT
    \/ g.PAGE_W - (StartX(g, zg) + GridW(g, zg)) < g.PAGE_MARGIN_RIGHT

CardsPerPage(g) == g.GRID_COLS * g.GRID_ROWS
\* total_pages = max(1, math.ceil(len(cards) / cards_per_page))
TotalPages(n, g) == Max(1, Ceil(n, CardsPerPage(g)))

Col(p, g) == p % g.GRID_COLS
Row(p, g) == p \div g.GRID_COLS
\* the column of the back of the cell at position p
MirrorCol(p, g) == g.GRID_COLS - 1 - Col(p, g)
CellX(c, g, zg) == StartX(g, zg) + c * (g.CARD_W + GapX(g, zg))
CellY(r, g, zg) == StartY(g, zg) + (g.GRID_ROWS - 1 - r) * (g.CARD_H + GapY(g, zg))

\* A call of draw_card (side "front") or draw_back (side "back") in a cell:
\* card is the index of the card drawn, 0 for draw_back(c, None, ...).
Placement(side, idx, pg, p, r, c, x, y, res) ==
    [side |-> side, card |-> idx, page |-> pg, pos |-> p, row |-> r, col |-> c,
     x |-> x, y |-> y, ops |-> res.ops, raised |-> res.raised]

\* Something render_pdf itself draws on the page: the header, the caption.
PageItem(pg, op) ==
    Placement("page", 0, pg, 0, 0, 0, 0, 0, [ops |-> <<op>>, raised |-> ""])

NoFs == [dirCreated |-> FALSE, warned |-> FALSE, saved |-> 0]

----------------------------------------------------------------------------
(* Inputs.                                                                 *)

MaxCards == 2
MaxTextLen == 5
MaxWidthSteps == 4

LongEffect ==
    <<"W","W","W","W","SP","W","W","W","W","SP","W","W","W","W","SP","W","W","W","W","SP",
      "W","W","W","W","BS","n","n","n">>

Types == {"ability", "monster", "weapon"}

\* The cards the direct calls of draw_card and draw_back are tried on.
AllCards ==
    [type : Types, cost : {-1, 0, 2}, lootBudget : {None, Some(0), Some(3), Some(-1)},
     hp : {None, Some(5)}, atk : {None, Some(2)}, biome : {"", "forest"},
     back_icon : {"", "skull"}, school : {"", "attack"}, front_icon : {"", "sword"},
     deck : {"", "monster"}, effect : {LongEffect}]

Ability(cost) ==
    [type |-> "ability", cost |-> cost, lootBudget |-> None, hp |-> None, atk |-> None,
     biome |-> "", back_icon |-> "", school |-> "attack", front_icon |-> "", deck |-> "",
     effect |-> <<"n", "SP", "W">>]

Monster(cost, hp, atk, lb) ==
    [type |-> "monster", cost |-> cost, lootBudget |-> lb, hp |-> hp, atk |-> atk,
     biome |-> "", back_icon |-> "", school |-> "", front_icon |-> "dragon",
     deck |-> "monster", effect |-> <<>>]

\* The cards of the decks render_pdf is run on.
SampleCards == {Ability(0), Ability(2), Monster(0, Some(5), Some(2), Some(3))}

RECURSIVE SeqsUpTo(_, _)
SeqsUpTo(S, n) ==
    IF n = 0 THEN {<<>>}
    ELSE LET shorter == SeqsUpTo(S, n - 1)
         IN  shorter \cup {Append(q, e) : q \in {r \in shorter : Len(r) = n - 1}, e \in S}

\* The deck of the end-to-end scenario: 10 ability cards with cost 0.
TenAbilities == [i \in 1..10 |-> Ability(0)]

Decks == SeqsUpTo(SampleCards, MaxCards) \cup {TenAbilities}

\* Layout attributes a caller can give the config module; ConfigPy is one.
Configs ==
    {[ConfigPy EXCEPT !.GRID_COLS = c, !.GRID_ROWS = r, !.CARD_H = h, !.PAGE_W = w] :
        c \in {2, 3}, r \in {2, 3}, h \in {87 * mm, 94 * mm, 100 * mm},
        w \in {210 * mm, 205 * mm}}

Themes == {EmptyTheme, SampleTheme, NoLootBackTheme}

FontFiles ==
    {SymbolaCandidates[i] : i \in DOMAIN SymbolaCandidates}
    \cup {"dejavu/DejaVuSans.ttf", "dejavu/DejaVuSans-Bold.ttf",
          "freefont/FreeSans.ttf", "freefont/FreeSansBold.ttf"}

\* A machine with the DejaVu fonts and Symbola installed.
FontsInstalled ==
    [p \in FontFiles |->
        IF p \in {"dejavu/DejaVuSans.ttf", "dejavu/DejaVuSans-Bold.ttf", "Symbola/Symbola.ttf"}
        THEN "ok" ELSE "missing"]

\* The machines ensure_fonts is tried on: each of six font files is missing,
\* good or broken; the last three Symbola candidates are missing.
FontEnvs ==
    {t \in [FontFiles -> {"missing", "ok", "bad"}] :
        \A i \in 3..Len(SymbolaCandidates) : t[SymbolaCandidates[i]] = "missing"}

MaxRuns == 2

\* outDir is os.path.dirname(out_path): "" (no directory part), a directory
\* that does not exist yet, or one that exists.
Envs ==
    {[icons |-> i.icons, bad |-> i.bad, glyphErr |-> i.glyphErr, outDir |-> d,
      ttf |-> FontsInstalled] :
        i \in {[icons |-> {}, bad |-> {}, glyphErr |-> FALSE],
               [icons |-> {}, bad |-> {}, glyphErr |-> TRUE],
               [icons |-> {"ability", "sword", "skull"}, bad |-> {}, glyphErr |-> FALSE],
               [icons |-> {"ability", "sword", "skull"}, bad |-> {"ability", "sword", "skull"},
                glyphErr |-> FALSE],
               [icons |-> {"ability", "sword", "skull"}, bad |-> {"ability", "sword", "skull"},
                glyphErr |-> TRUE]},
        d \in {"", "missing", "exists"}}

\* The <loot> children of the documents parse_cards is run on.
Loots ==
    [lootType : {"", "weapon"}, cost : {"", "2", "x"}, school : {"", "attack", "other"},
     front_icon : {"", "sword"}]

Child(front_icon, hp, atk, lb) ==
    [front_icon |-> front_icon, hp |-> hp, atk |-> atk, lootBudget |-> lb]

\* The variant children: none, a monster, a monster with its own front icon,
\* an npc, a biome after a monster.
ChildSets ==
    {<<>>,
     "monster" :> Child("", "5", "2", "3"),
     "monster" :> Child("dragon", "5", "x", ""),
     "npc" :> Child("", "", "", ""),
     ("biome" :> Child("tree", "", "", "")) @@ ("monster" :> Child("", "5", "2", "0"))}

NodeText == <<"SP", "n", "SP", "W", "SP">>
\* the tags attribute "a, b,"
NodeTags == <<"a", ",", "SP", "b", ",">>

\* The <card> elements: with a <loot> child, and without one.
Nodes ==
    {[loot |-> Some(l), type |-> "", cost |-> "", school |-> "", front_icon |-> f,
      count |-> n, children |-> ch, text |-> NodeText, tags |-> NodeTags] :
        l \in Loots, f \in {"", "sword"}, n \in {"", "2"}, ch \in {<<>>, "monster" :> Child("", "5", "2", "3")}}
    \cup
    {[loot |-> None, type |-> t, cost |-> c, school |-> sc, front_icon |-> f,
      count |-> n, children |-> ch, text |-> NodeText, tags |-> NodeTags] :
        t \in {"", "weapon"}, c \in {"", "2", "x"}, sc \in {"", "attack"},
        f \in {"", "sword"}, n \in {"", "0", "2"}, ch \in ChildSets}

\* The cards and card heights draw_card's body text is tried on: a body area
\* below the header of negative height, lower than one line, of two lines,
\* and heights of Configs.
BodyCards ==
    {[Monster(0, Some(5), Some(2), Some(3)) EXCEPT !.type = t, !.front_icon = f, !.effect = e] :
        t \in {"ability", "monster"}, f \in {"", "sword"},
        e \in {<<>>, <<"n", "SP", "W">>, LongEffect}}
BodyHeights ==
    {20 * mm, 27 * mm + 3 * pt, 27 * mm + 10 * pt, 27 * mm + 27 * pt, 40 * mm, 87 * mm, 100 * mm}

\* The documents whose Cards are edited after parsing: one or two <card>
\* elements, with and without tags, of one or two copies.
CopyNodes ==
    {[loot |-> None, type |-> "", cost |-> "2", school |-> "", front_icon |-> "",
      count |-> n, children |-> <<>>, text |-> NodeText, tags |-> t] :
        n \in {"", "2"}, t \in {<<>>, NodeTags}}
CopyDocs == SeqsUpTo(CopyNodes, 2) \ {<<>>}

EditCosts == {0, 2}
NewTag == <<"x">>
MaxTags == 3
MaxLists == 3

WrapChars == {"n", "W", "BS", "SP", "NL"}
WrapTexts == SeqsUpTo(WrapChars, MaxTextLen) \cup {NoneText}
WrapWidths == {i * 5 * pt : i \in 0..MaxWidthSteps}

----------------------------------------------------------------------------
(* render_pdf as a state machine.                                          *)

Init ==
    /\ cards \in Decks
    /\ color \in BOOLEAN
    /\ zero_gaps \in BOOLEAN
    /\ cfg \in Configs
    /\ theme \in Themes
    /\ env \in Envs
    /\ xml = <<>>
    /\ tagsOf = [i \in DOMAIN cards |-> 0] /\ heap = <<>>
    /\ fonts = FontsPy /\ runs = <<>>
    /\ pc = "start"
    /\ page = 0 /\ pos = 0 /\ cur = <<>> /\ doc = <<>>
    /\ fs = NoFs /\ err = ""
    /\ text = <<>> /\ max_width = 0 /\ lines = <<>>

\* Lines 381-413: the output directory, the canvas, the fonts, the layout.
Setup ==
    /\ pc = "start"
    /\ IF env.outDir = ""
       THEN /\ pc' = "raised" /\ err' = "FileNotFoundError"
            /\ UNCHANGED <<fs, fontVars>>
       ELSE /\ fonts' = ensure_fonts(fonts, env.ttf)
            /\ runs' = Append(runs, BoundFonts(ensure_fonts(fonts, env.ttf)))
            /\ fs' = [fs EXCEPT !.dirCreated = (env.outDir = "missing"),
                                !.warned = MarginWarning(cfg, zero_gaps)]
            /\ IF StartY(cfg, zero_gaps) < 0
               THEN pc' = "raised" /\ err' = "ValueError"
               ELSE pc' = "page" /\ err' = ""
    /\ UNCHANGED <<inputs, wrapVars, page, pos, cur, doc>>

\* Lines 415-420: the page header of the next page pair.
PageStart ==
    /\ pc = "page"
    /\ page < TotalPages(Len(cards), cfg)
    /\ cur' = <<PageItem(page, Op("page_header", ""))>>
    /\ pos' = 0
    /\ pc' = "front"
    /\ UNCHANGED <<inputs, wrapVars, fontVars, page, doc, fs, err>>

\* Faulty variant of FrontCell: draw_card stores the deck name it defaulted
\* for the header color (`card.deck = card.deck or "loot"`) in the Card.
FrontCellDeckStored ==
    /\ pc = "front"
    /\ pos < CardsPerPage(cfg)
    /\ LET start_idx == page * CardsPerPage(cfg)
           end_idx   == Min(Len(cards), start_idx + CardsPerPage(cfg))
           card_idx  == start_idx + pos
           col       == Col(pos, cfg)
           r         == Row(pos, cfg)
           x         == CellX(col, cfg, zero_gaps)
           y         == CellY(r, cfg, zero_gaps)
       IN  IF card_idx < end_idx
           THEN LET res == draw_card(cards[card_idx + 1], cfg.CARD_W, cfg.CARD_H,
                                     color, theme, env)
                IN  /\ cur' = Append(cur, Placement("front", card_idx + 1, page, pos,
                                                    r, col, x, y, res))
                    /\ cards' = IF color
                                THEN [cards EXCEPT ![card_idx + 1].deck =
                                                       IF @ = "" THEN "loot" ELSE @]
                                ELSE cards
                    /\ IF res.raised # ""
                       THEN pc' = "raised" /\ err' = res.raised /\ pos' = pos
                       ELSE pc' = pc /\ err' = err /\ pos' = pos + 1
           ELSE /\ pos' = pos + 1
                /\ UNCHANGED <<cards, cur, pc, err>>
    /\ UNCHANGED <<color, zero_gaps, cfg, theme, env, xml, tagsOf, heap, wrapVars, fontVars,
                   page, doc, fs>>

\* Lines 422-429: one iteration of the loop over the front cells.
FrontCell ==
    /\ pc = "front"
    /\ pos < CardsPerPage(cfg)
    /\ LET start_idx == page * CardsPerPage(cfg)
           end_idx   == Min(Len(cards), start_idx + CardsPerPage(cfg))
           card_idx  == start_idx + pos
           col       == Col(pos, cfg)
           r         == Row(pos, cfg)
           x         == CellX(col, cfg, zero_gaps)
           y         == CellY(r, cfg, zero_gaps)
       IN  IF card_idx < end_idx
           THEN LET res == draw_card(cards[card_idx + 1], cfg.CARD_W, cfg.CARD_H,
                                     color, theme, env)
                IN  /\ cur' = Append(cur, Placement("front", card_idx + 1, page, pos,
                                                    r, col, x, y, res))
                    /\ IF res.raised # ""
                       THEN pc' = "raised" /\ err' = res.raised /\ pos' = pos
                       ELSE pc' = pc /\ err' = err /\ pos' = pos + 1
           ELSE /\ pos' = pos + 1
                /\ UNCHANGED <<cur, pc, err>>
    /\ UNCHANGED <<inputs, wrapVars, fontVars, page, doc, fs>>

\* Lines 431-435: the caption of the front page and showPage.
FrontPageEnd ==
    /\ pc = "front"
    /\ pos = CardsPerPage(cfg)
    /\ doc' = Append(doc, [side |-> "front", index |-> page,
                           items |-> Append(cur, PageItem(page, Op("caption", "front")))])
    /\ cur' = <<>>
    /\ pos' = 0
    /\ pc' = "back"
    /\ UNCHANGED <<inputs, wrapVars, fontVars, page, fs, err>>

\* Lines 437-448: one iteration of the loop over the back cells.
BackCell ==
    /\ pc = "back"
    /\ pos < CardsPerPage(cfg)
    /\ LET start_idx  == page * CardsPerPage(cfg)
           card_idx   == start_idx + pos
           col        == Col(pos, cfg)
           r          == Row(pos, cfg)
           mirror_col == MirrorCol(pos, cfg)
           x          == CellX(mirror_col, cfg, zero_gaps)
           y          == CellY(r, cfg, zero_gaps)
           co         == IF card_idx < Len(cards) THEN Some(cards[card_idx + 1]) ELSE None
           res        == draw_back(co, cfg.CARD_W, cfg.CARD_H, color, theme, env)
       IN  /\ cur' = Append(cur, Placement("back",
                                           IF co = None THEN 0 ELSE card_idx + 1,
                                           page, pos, r, mirror_col, x, y, res))
           /\ IF res.raised # ""
              THEN pc' = "raised" /\ err' = res.raised /\ pos' = pos
              ELSE pc' = pc /\ err' = err /\ pos' = pos + 1
    /\ UNCHANGED <<inputs, wrapVars, fontVars, page, doc, fs>>

\* Lines 450-455: the caption of the back page and showPage; then the next
\* page pair, or the end of the loop.
BackPageEnd ==
    /\ pc = "back"
    /\ pos = CardsPerPage(cfg)
    /\ doc' = Append(doc, [side |-> "back", index |-> page,
                           items |-> Append(cur, PageItem(page, Op("caption", "back")))])
    /\ cur' = <<>>
    /\ pos' = 0
    /\ page' = page + 1
    /\ pc' = IF page + 1 < TotalPages(Len(cards), cfg) THEN "page" ELSE "save"
    /\ UNCHANGED <<inputs, wrapVars, fontVars, fs, err>>

\* Line 457: c.save() writes the document.
Save ==
    /\ pc = "save"
    /\ fs' = [fs EXCEPT !.saved = @ + 1]
    /\ pc' = "done"
    /\ UNCHANGED <<inputs, wrapVars, fontVars, page, pos, cur, doc, err>>

Next == Setup \/ PageStart \/ FrontCell \/ FrontPageEnd \/ BackCell \/ BackPageEnd \/ Save

Spec == Init /\ [][Next]_vars

----------------------------------------------------------------------------
(* render_pdf of the standalone script (render_cards.py, lines 657-739).   *)
(* It has no zero_gaps parameter; but for the two loops over the cells its *)
(* statements are those of the package's render_pdf: the steps Setup,      *)
(* PageStart, FrontPageEnd, BackPageEnd and Save.                          *)

InitScript ==
    /\ cards \in Decks
    /\ color \in BOOLEAN
    /\ zero_gaps = FALSE
    /\ cfg \in Configs
    /\ theme \in Themes
    /\ env \in Envs
    /\ xml = <<>>
    /\ tagsOf = [i \in DOMAIN cards |-> 0] /\ heap = <<>>
    /\ fonts = FontsPy /\ runs = <<>>
    /\ pc = "start"
    /\ page = 0 /\ pos = 0 /\ cur = <<>> /\ doc = <<>>
    /\ fs = NoFs /\ err = ""
    /\ text = <<>> /\ max_width = 0 /\ lines = <<>>

\* Lines 703-710 of the script: one iteration of the loop over the front cells.
ScriptFrontCell ==
    /\ pc = "front"
    /\ pos < CardsPerPage(cfg)
    /\ LET start_idx == page * CardsPerPage(cfg)
           end_idx   == Min(Len(cards), start_idx + CardsPerPage(cfg))
           card_idx  == start_idx + pos
           col       == Col(pos, cfg)
           r         == Row(pos, cfg)
           x         == CellX(col, cfg, FALSE)
           y         == CellY(r, cfg, FALSE)
       IN  IF card_idx < end_idx
           THEN LET res == script_draw_card(cards[card_idx + 1], cfg.CARD_W, cfg.CARD_H,
                                            color, theme, env)
                IN  /\ cur' = Append(cur, Placement("front", card_idx + 1, page, pos,
                                                    r, col, x, y, res))
                    /\ IF res.raised # ""
                       THEN pc' = "raised" /\ err' = res.raised /\ pos' = pos
                       ELSE pc' = pc /\ err' = err /\ pos' = pos + 1
           ELSE /\ pos' = pos + 1
                /\ UNCHANGED <<cur, pc, err>>
    /\ UNCHANGED <<inputs, wrapVars, fontVars, page, doc, fs>>

\* Lines 720-730 of the script: one iteration of the loop over the back
\* cells, "in same layout".
ScriptBackCell ==
    /\ pc = "back"
    /\ pos < CardsPerPage(cfg)
    /\ LET start_idx  == page * CardsPerPage(cfg)
           card_idx   == start_idx + pos
           col        == Col(pos, cfg)
           r          == Row(pos, cfg)
           x          == CellX(col, cfg, FALSE)
           y          == CellY(r, cfg, FALSE)
           co         == IF card_idx < Len(cards) THEN Some(cards[card_idx + 1]) ELSE None
           res        == script_draw_back(co, cfg.CARD_W, cfg.CARD_H, color, theme, env)
       IN  /\ cur' = Append(cur, Placement("back",
                                           IF co = None THEN 0 ELSE card_idx + 1,
                                           page, pos, r, col, x, y, res))
           /\ IF res.raised # ""
              THEN pc' = "raised" /\ err' = res.raised /\ pos' = pos
              ELSE pc' = pc /\ err' = err /\ pos' = pos + 1
    /\ UNCHANGED <<inputs, wrapVars, fontVars, page, doc, fs>>

NextScript ==
    Setup \/ PageStart \/ ScriptFrontCell \/ FrontPageEnd \/ ScriptBackCell \/ BackPageEnd \/ Save

SpecScript == InitScript /\ [][NextScript]_vars

----------------------------------------------------------------------------
(* draw_card and draw_back called on one card, and draw_back on no card.   *)

InitSide ==
    /\ \E card \in AllCards : cards = <<card>>
    /\ color \in BOOLEAN
    /\ zero_gaps = FALSE
    /\ cfg = ConfigPy
    /\ theme \in Themes
    /\ env \in {e \in Envs : e.outDir = "exists"}
    /\ xml = <<>>
    /\ tagsOf = [i \in DOMAIN cards |-> 0] /\ heap = <<>>
    /\ fonts = FontsPy /\ runs = <<>>
    /\ pc = "side"
    /\ page = 0 /\ pos = 0 /\ cur = <<>> /\ doc = <<>>
    /\ fs = NoFs /\ err = ""
    /\ text = <<>> /\ max_width = 0 /\ lines = <<>>

CallDrawCard ==
    /\ pc = "side"
    /\ Len(cur) = 0
    /\ cur' = Append(cur, Placement("front", 1, 0, 0, 0, 0, 0, 0,
                                    draw_card(cards[1], cfg.CARD_W, cfg.CARD_H,
                                              color, theme, env)))
    /\ UNCHANGED <<inputs, wrapVars, fontVars, pc, page, pos, doc, fs, err>>

CallDrawBack ==
    /\ pc = "side"
    /\ Len(cur) = 1
    /\ cur' = Append(cur, Placement("back", 1, 0, 0, 0, 0, 0, 0,
                                    draw_back(Some(cards[1]), cfg.CARD_W, cfg.CARD_H,
                                              color, theme, env)))
    /\ UNCHANGED <<inputs, wrapVars, fontVars, pc, page, pos, doc, fs, err>>

CallDrawBackEmpty ==
    /\ pc = "side"
    /\ Len(cur) = 2
    /\ cur' = Append(cur, Placement("back", 0, 0, 0, 0, 0, 0, 0,
                                    draw_back(None, cfg.CARD_W, cfg.CARD_H,
                                              color, theme, env)))
    /\ UNCHANGED <<inputs, wrapVars, fontVars, pc, page, pos, doc, fs, err>>

NextSide == CallDrawCard \/ CallDrawBack \/ CallDrawBackEmpty

SpecSide == InitSide /\ [][NextSide]_vars

----------------------------------------------------------------------------
(* parse_cards on a document of one <card> element, then draw_card and     *)
(* draw_back on the first card it produced.                                *)

InitParse ==
    /\ \E node \in Nodes : xml = <<node>>
    /\ cards = <<>>
    /\ color = FALSE
    /\ zero_gaps = FALSE
    /\ cfg = ConfigPy
    /\ theme \in Themes
    /\ env \in {e \in Envs : e.outDir = "exists"}
    /\ tagsOf = <<>> /\ heap = <<>>
    /\ pc = "parse"
    /\ fonts = FontsPy /\ runs = <<>>
    /\ page = 0 /\ pos = 0 /\ cur = <<>> /\ doc = <<>>
    /\ fs = NoFs /\ err = ""
    /\ text = <<>> /\ max_width = 0 /\ lines = <<>>

ParseCards ==
    /\ pc = "parse"
    /\ cards' = parse_cards(xml, theme)
    /\ tagsOf' = TagsOfCards(xml, 1)
    /\ heap' = TagLists(xml)
    /\ pc' = "side"
    /\ UNCHANGED <<color, zero_gaps, cfg, theme, env, xml, wrapVars, runVars, fontVars>>

NextParse == ParseCards \/ CallDrawCard \/ CallDrawBack \/ CallDrawBackEmpty

SpecParse == InitParse /\ [][NextParse]_vars

----------------------------------------------------------------------------
(* draw_card called on one card in a box of a given height.                *)

InitBody ==
    /\ \E card \in BodyCards : cards = <<card>>
    /\ color \in BOOLEAN
    /\ zero_gaps = FALSE
    /\ \E h \in BodyHeights : cfg = [ConfigPy EXCEPT !.CARD_H = h]
    /\ theme \in Themes
    /\ env = [icons |-> {}, bad |-> {}, glyphErr |-> FALSE, outDir |-> "exists",
              ttf |-> FontsInstalled]
    /\ xml = <<>>
    /\ tagsOf = [i \in DOMAIN cards |-> 0] /\ heap = <<>>
    /\ fonts = FontsPy /\ runs = <<>>
    /\ pc = "side"
    /\ page = 0 /\ pos = 0 /\ cur = <<>> /\ doc = <<>>
    /\ fs = NoFs /\ err = ""
    /\ text = <<>> /\ max_width = 0 /\ lines = <<>>

NextBody == CallDrawCard

SpecBody == InitBody /\ [][NextBody]_vars

----------------------------------------------------------------------------
(* parse_cards on a document, then the caller's edits of the Cards it      *)
(* returned, before rendering.  A Card is a mutable dataclass instance:    *)
(* an assignment to a field changes that instance; a change of a list in   *)
(* place changes the list object, whoever holds it.                        *)

InitCopies ==
    /\ xml \in CopyDocs
    /\ cards = <<>>
    /\ tagsOf = <<>> /\ heap = <<>>
    /\ color = FALSE
    /\ zero_gaps = FALSE
    /\ cfg = ConfigPy
    /\ theme = SampleTheme
    /\ env = [icons |-> {}, bad |-> {}, glyphErr |-> FALSE, outDir |-> "exists",
              ttf |-> FontsInstalled]
    /\ pc = "parse"
    /\ fonts = FontsPy /\ runs = <<>>
    /\ page = 0 /\ pos = 0 /\ cur = <<>> /\ doc = <<>>
    /\ fs = NoFs /\ err = ""
    /\ text = <<>> /\ max_width = 0 /\ lines = <<>>

ParseCopies ==
    /\ pc = "parse"
    /\ cards' = parse_cards(xml, theme)
    /\ tagsOf' = TagsOfCards(xml, 1)
    /\ heap' = TagLists(xml)
    /\ pc' = "parsed"
    /\ UNCHANGED <<color, zero_gaps, cfg, theme, env, xml, wrapVars, runVars, fontVars>>

\* cards[i].cost = v
EditField(i) ==
    /\ pc = "parsed"
    /\ \E v \in EditCosts : v # cards[i + 1].cost /\ cards' = [cards EXCEPT ![i + 1].cost = v]
    /\ UNCHANGED <<color, zero_gaps, cfg, theme, env, xml, tagsOf, heap, wrapVars, runVars,
                   fontVars, pc>>

\* cards[i].tags = [] : the field is bound to a new list
RebindTags(i) ==
    /\ pc = "parsed"
    /\ Len(heap) < MaxLists
    /\ heap' = Append(heap, <<>>)
    /\ tagsOf' = [tagsOf EXCEPT ![i + 1] = Len(heap) + 1]
    /\ UNCHANGED <<cards, color, zero_gaps, cfg, theme, env, xml, wrapVars, runVars, fontVars, pc>>

\* list.remove(t): the list without the first occurrence of t
RECURSIVE Remove(_, _)
Remove(l, t) ==
    IF l = <<>> THEN <<>>
    ELSE IF Head(l) = t THEN Tail(l)
    ELSE <<Head(l)>> \o Remove(Tail(l), t)

\* cards[i].tags.append(t) and cards[i].tags.remove(t): the list the field
\* holds is changed in place
EditTags(i) ==
    /\ pc = "parsed"
    /\ tagsOf[i + 1] # 0
    /\ LET l == heap[tagsOf[i + 1]]
       IN  \/ /\ Len(l) < MaxTags
              /\ heap' = [heap EXCEPT ![tagsOf[i + 1]] = Append(l, NewTag)]
           \/ \E k \in DOMAIN l : heap' = [heap EXCEPT ![tagsOf[i + 1]] = Remove(l, l[k])]
    /\ UNCHANGED <<cards, color, zero_gaps, cfg, theme, env, xml, tagsOf, wrapVars, runVars,
                   fontVars, pc>>

NextCopies ==
    \/ ParseCopies
    \/ \E i \in 0..(Len(cards) - 1) : EditField(i) \/ RebindTags(i) \/ EditTags(i)

SpecCopies == InitCopies /\ [][NextCopies]_vars

----------------------------------------------------------------------------
(* ensure_fonts called by successive runs of render_pdf in one process.    *)

InitFonts ==
    /\ \E t \in FontEnvs :
          env = [icons |-> {}, bad |-> {}, glyphErr |-> FALSE, outDir |-> "exists", ttf |-> t]
    /\ fonts = FontsPy /\ runs = <<>>
    /\ pc = "fonts"
    /\ cards = <<>> /\ color = FALSE /\ zero_gaps = FALSE /\ cfg = ConfigPy
    /\ theme = EmptyTheme /\ xml = <<>>
    /\ tagsOf = <<>> /\ heap = <<>>
    /\ page = 0 /\ pos = 0 /\ cur = <<>> /\ doc = <<>>
    /\ fs = NoFs /\ err = ""
    /\ text = <<>> /\ max_width = 0 /\ lines = <<>>

\* Line 383 of render_pdf: fonts.ensure_fonts()
CallEnsureFonts ==
    /\ pc = "fonts"
    /\ Len(runs) < MaxRuns
    /\ fonts' = ensure_fonts(fonts, env.ttf)
    /\ runs' = Append(runs, BoundFonts(ensure_fonts(fonts, env.ttf)))
    /\ UNCHANGED <<inputs, wrapVars, runVars, pc>>

NextFonts == CallEnsureFonts

SpecFonts == InitFonts /\ [][NextFonts]_vars

----------------------------------------------------------------------------
(* wrap_text called on a text.                                             *)

InitWrap ==
    /\ text \in WrapTexts
    /\ max_width \in WrapWidths
    /\ lines = <<>>
    /\ pc = "wrap"
    /\ cards = <<>> /\ color = FALSE /\ zero_gaps = FALSE /\ cfg = ConfigPy
    /\ theme = EmptyTheme
    /\ env = [icons |-> {}, bad |-> {}, glyphErr |-> FALSE, outDir |-> "exists",
              ttf |-> FontsInstalled]
    /\ xml = <<>>
    /\ tagsOf = <<>> /\ heap = <<>>
    /\ fonts = FontsPy /\ runs = <<>>
    /\ page = 0 /\ pos = 0 /\ cur = <<>> /\ doc = <<>>
    /\ fs = NoFs /\ err = ""

CallWrapText ==
    /\ pc = "wrap"
    /\ lines' = wrap_text(text, max_width, BODY_SIZE)
    /\ pc' = "wrapped"
    /\ UNCHANGED <<inputs, runVars, fontVars, text, max_width>>

NextWrap == CallWrapText

SpecWrap == InitWrap /\ [][NextWrap]_vars

----------------------------------------------------------------------------
(* What a run has drawn.                                                   *)

RECURSIVE PagesItems(_)
PagesItems(pages) ==
    IF pages = <<>> THEN <<>> ELSE Head(pages).items \o PagesItems(Tail(pages))

\* Every draw call of the run so far, on finalized pages and on the open page.
Drawn == PagesItems(doc) \o cur
DrawnSet == {Drawn[i] : i \in DOMAIN Drawn}

\* The draw calls on the finalized page of the given side and index.
PageCalls(side, p) ==
    {pl \in {PagesItems(doc)[i] : i \in DOMAIN PagesItems(doc)} : pl.side = side /\ pl.page = p}

OpsOfKind(pl, kinds) == {pl.ops[k] : k \in {j \in DOMAIN pl.ops : pl.ops[j].kind \in kinds}}

Terminal == pc \in {"done", "raised"}
\* The run got past the output directory and the layout check.
Accepted == err \notin {"ValueError", "FileNotFoundError"}

----------------------------------------------------------------------------
(* Claims.                                                                 *)

\* C1: a run of render_pdf on n cards emits exactly ceil(n / (cols*rows))
\* page pairs, each a front page followed by a back page of the same index.
C1_PagePairs ==
    (Terminal /\ Accepted) =>
        /\ Len(doc) = 2 * Ceil(Len(cards), CardsPerPage(cfg))
        /\ \A k \in DOMAIN doc :
              /\ doc[k].side = (IF k % 2 = 1 THEN "front" ELSE "back")
              /\ doc[k].index = (k - 1) \div 2

\* C2: in a finished run, for every page p and position q with i = p*cols*rows + q:
\* when i < n the front page p shows the front of card i in cell q and the back
\* page p its real back; when i >= n the front page shows nothing in the cell and
\* the back page the empty-back placeholder.
C2_CellRule ==
    (Terminal /\ Accepted) =>
        \A p \in 0..(TotalPages(Len(cards), cfg) - 1), q \in 0..(CardsPerPage(cfg) - 1) :
            LET i == p * CardsPerPage(cfg) + q
                shown(side, k) ==
                    \E pl \in PageCalls(side, p) :
                        pl.side = side /\ pl.pos = q /\ pl.card = k /\ pl.raised = ""
            IN  IF i < Len(cards)
                THEN shown("front", i + 1) /\ shown("back", i + 1)
                ELSE /\ ~\E pl \in PageCalls("front", p) : pl.side = "front" /\ pl.pos = q
                     /\ shown("back", 0)

\* C3: in a finished run every card whose front was placed at row r, column c
\* has its back placed on the back page of the same index at row r, column cols-1-c.
C3_BackMirrored ==
    (Terminal /\ Accepted) =>
        \A f \in DrawnSet :
            f.side = "front" =>
                \E b \in PageCalls("back", f.page) :
                    /\ b.side = "back" /\ b.card = f.card
                    /\ b.row = f.row
                    /\ b.col = cfg.GRID_COLS - 1 - f.col

\* C4: in a finished run the rectangle of every card's back is the reflection of
\* the rectangle of its front about the vertical centerline of the page:
\* back_x + cellW = pageW - front_x and back_y = front_y.
C4_Reflection ==
    (Terminal /\ Accepted) =>
        \A f \in DrawnSet :
            f.side = "front" =>
                \E b \in PageCalls("back", f.page) :
                    /\ b.side = "back" /\ b.card = f.card
                    /\ b.x + cfg.CARD_W = cfg.PAGE_W - f.x
                    /\ b.y = f.y

\* The effective displayed value as the spec defines it: loot-budget for a
\* monster card, cost for every other card.
EffectiveValue(card) == IF card.type = "monster" THEN card.lootBudget ELSE Some(card.cost)

\* C5: for a card whose effective displayed value is <= 0, draw_card draws no
\* top-right cost glyph and draw_back draws no cost numeral.
C5_NoCostWhenNotPositive ==
    \A i \in DOMAIN cur :
        (/\ cur[i].card # 0
         /\ EffectiveValue(cards[cur[i].card]) # None
         /\ EffectiveValue(cards[cur[i].card])[1] <= 0)
        => OpsOfKind(cur[i], {"cost", "back_cost"}) = {}

C7_SameBothSides ==
    (pc = "side" /\ Len(cur) >= 2) =>
        LET f == OpsOfKind(cur[1], {"cost"})
            b == OpsOfKind(cur[2], {"back_cost"})
        IN  /\ (f = {}) <=> (b = {})
            /\ \A x \in f, y \in b : x.items[1].num = y.items[1].num

\* C8: draw_card and draw_back return normally for every card of every kind,
\* with the names config.py defines.
C8_DrawsReturnNormally == \A i \in DOMAIN cur : cur[i].raised = ""

\* C9: when the layout error is raised nothing has been drawn, no page emitted,
\* nothing saved and nothing created on the file system, the output directory
\* included.
C9_NothingBeforeLayoutError ==
    (pc = "raised" /\ err = "ValueError") =>
        /\ cur = <<>> /\ doc = <<>>
        /\ fs.saved = 0
        /\ ~fs.dirCreated

\* The whitespace-separated words of the input of wrap_text.
InputWords == IF text = NoneText THEN <<>> ELSE SplitWords(Normalize(text))

\* C10: the lines wrap_text returns, joined with single spaces and split on
\* whitespace, give exactly the words of the input, in order.
C10_WordsPreserved == pc = "wrapped" => SplitWords(Join(lines)) = InputWords

\* C10 witness: a one-paragraph text whose first word alone exceeds the width
\* and is followed by another word.
C10_Witness ==
    /\ pc = "wrapped" /\ text # NoneText
    /\ \A i \in DOMAIN text : text[i] \notin {"NL", "BS"}
    /\ Len(InputWords) >= 2
    /\ StringWidth(InputWords[1], BODY_SIZE) > max_width
    /\ Len(lines) >= 2 /\ lines[1] = InputWords[1]

\* C11: every line wrap_text returns measures at most max_width, unless it is
\* exactly one word whose own width exceeds max_width; a line of two or more
\* words never exceeds max_width.
C11_LinesFit ==
    pc = "wrapped" =>
        \A i \in DOMAIN lines :
            \/ StringWidth(lines[i], BODY_SIZE) <= max_width
            \/ /\ Len(SplitWords(lines[i])) = 1
               /\ StringWidth(SplitWords(lines[i])[1], BODY_SIZE) > max_width

\* C11 witness: the text was broken into a line of two words that fits and a
\* further line, because the third word did not fit on the first line.
C11_Witness ==
    /\ pc = "wrapped" /\ text # NoneText
    /\ \A i \in DOMAIN text : text[i] \notin {"NL", "BS"}
    /\ Len(InputWords) = 3
    /\ Len(lines) = 2 /\ Len(SplitWords(lines[1])) = 2
    /\ StringWidth(Join(InputWords), BODY_SIZE) > max_width

\* The paragraphs of the input of wrap_text, after literal backslash-n
\* sequences have become paragraph breaks.
InputParagraphs == IF text = NoneText THEN << <<>> >> ELSE SplitNewline(Normalize(text))

\* ls is, paragraph by paragraph, one empty line for an empty paragraph and
\* one or more non-empty lines holding exactly the words of a non-empty one.
RECURSIVE ParagraphsKept(_, _)
ParagraphsKept(ls, paras) ==
    IF paras = <<>> THEN ls = <<>>
    ELSE IF Strip(Head(paras)) = <<>>
         THEN ls # <<>> /\ Head(ls) = <<>> /\ ParagraphsKept(Tail(ls), Tail(paras))
    ELSE \E k \in 1..Len(ls) :
            /\ \A i \in 1..k : ls[i] # <<>>
            /\ SplitWords(Join(SubSeq(ls, 1, k))) = SplitWords(Head(paras))
            /\ ParagraphsKept(SubSeq(ls, k + 1, Len(ls)), Tail(paras))

\* C12: wrap_text wraps each paragraph on its own and keeps blank lines: an
\* empty paragraph gives exactly one empty line at its place, a non-empty
\* paragraph gives one or more non-empty lines and no empty line, and no line
\* holds words of two paragraphs.
C12_ParagraphsKept == pc = "wrapped" => ParagraphsKept(lines, InputParagraphs)

\* C12 witness: an empty paragraph between two non-empty paragraphs, the
\* first break written as a literal backslash-n.
C12_Witness ==
    /\ pc = "wrapped" /\ text # NoneText
    /\ Len(InputParagraphs) = 3
    /\ Strip(InputParagraphs[1]) # <<>>
    /\ Strip(InputParagraphs[2]) = <<>>
    /\ Strip(InputParagraphs[3]) # <<>>
    /\ \E i \in DOMAIN text : text[i] = "BS"
    /\ Len(lines) = 3 /\ lines[2] = <<>>

\* The large front icon draw_card put on the front of the first parsed card
\* is the icon of the given key: its image or its glyph, none for the key ""
\* (and none where neither its image nor its glyph can be drawn).
LargeIconIs(key) ==
    LET large == OpsOfKind(cur[1], {"large_image", "large_glyph"})
    IN  IF key = "" THEN large = {}
        ELSE \/ large = {Op("large_image", key)}
             \/ large = {Op("large_glyph", Get(theme.TYPE_ICONS, key, key))}
             \/ large = {} /\ ~GlyphDraws(env)

\* The explicit front-icon key of a card definition: the front_icon attribute
\* of its <loot> block, or of the card element or else of its variant child.
ExplicitFrontIcon(node) ==
    IF node.loot # None THEN node.loot[1].front_icon
    ELSE IF node.front_icon # "" THEN node.front_icon
    ELSE IF FirstVariant(node) # "" THEN node.children[FirstVariant(node)].front_icon
    ELSE ""

\* The front-icon key by the stated priority: explicit key, deck-level default
\* of the typed variant, loot-type default of a loot card, none.
PriorityFrontIcon(node, th) ==
    IF ExplicitFrontIcon(node) # "" THEN ExplicitFrontIcon(node)
    ELSE IF node.loot = None /\ FirstVariant(node) # ""
         THEN Get(th.FRONT_DECK_ICONS, FirstVariant(node), "")
    ELSE IF node.loot # None
         THEN Get(th.LOOT_FRONT_DEFAULTS,
                  IF node.loot[1].lootType = "" THEN "ability" ELSE node.loot[1].lootType, "")
    ELSE ""

\* The same priority with the school step of a loot card between the
\* explicit key and the loot-type default.
PriorityFrontIconSchool(node, th) ==
    IF /\ node.loot # None /\ ExplicitFrontIcon(node) = ""
       /\ node.loot[1].school \in {"attack", "defense", "spell", "utility"}
    THEN SchoolIconMap[node.loot[1].school]
    ELSE PriorityFrontIcon(node, th)

\* C13: the large front icon of a card is resolved by strict priority: the
\* explicit front-icon key, else the deck-level default of a typed variant, else
\* the loot-type default of a loot card, else none; the school is not consulted.
C13_FrontPriority ==
    (pc = "side" /\ xml # <<>> /\ Len(cur) >= 1) =>
        /\ cards[1].front_icon = PriorityFrontIcon(xml[1], theme)
        /\ LargeIconIs(PriorityFrontIcon(xml[1], theme))

\* C13 amended: as C13, but a loot card without an explicit key whose school
\* is attack, defense, spell or utility gets the fixed icon of that school
\* before the loot-type default is looked at.
C13_FrontPrioritySchool ==
    (pc = "side" /\ xml # <<>> /\ Len(cur) >= 1) =>
        /\ cards[1].front_icon = PriorityFrontIconSchool(xml[1], theme)
        /\ LargeIconIs(PriorityFrontIconSchool(xml[1], theme))

\* C13 witness: a weapon loot card of school attack without an explicit key,
\* under a theme with a loot-type default for weapons, was parsed and drawn.
C13_Witness ==
    /\ pc = "side" /\ xml # <<>> /\ Len(cur) >= 1
    /\ xml[1].loot # None /\ xml[1].loot[1].front_icon = ""
    /\ xml[1].loot[1].school = "attack" /\ xml[1].loot[1].lootType = "weapon"
    /\ "weapon" \in DOMAIN theme.LOOT_FRONT_DEFAULTS
    /\ OpsOfKind(cur[1], {"large_image", "large_glyph"}) # {}

\* The generic back glyph: the back glyph of the deck "loot", the coin glyph
\* when the theme has none.
GenericBackGlyph(th) ==
    Get(th.BACK_DECK_ICONS, "loot", Get(th.TYPE_ICONS, "coin", "diamond"))

\* The back glyph by the stated priority, before it is cut to one character.
PriorityBackGlyph(card, th) ==
    IF card.back_icon # "" THEN card.back_icon
    ELSE IF card.deck \in DOMAIN th.BACK_DECK_ICONS THEN th.BACK_DECK_ICONS[card.deck]
    ELSE IF card.type \in DOMAIN th.LOOT_FRONT_DEFAULTS THEN GenericBackGlyph(th)
    ELSE IF card.type \in DOMAIN th.TYPE_ICONS THEN th.TYPE_ICONS[card.type]
    ELSE IF card.school \in DOMAIN th.TYPE_ICONS THEN th.TYPE_ICONS[card.school]
    ELSE "bullet"

BiomeGlyphs(th) == IF "FRONT_BIOME_ICONS" \in DOMAIN th THEN th.FRONT_BIOME_ICONS ELSE <<>>

\* The small header glyph as stated: biome glyph of a monster, else type
\* glyph, else school glyph, else the bullet.
HeaderGlyph(card, th) ==
    IF card.type = "monster" /\ card.biome \in DOMAIN BiomeGlyphs(th)
    THEN BiomeGlyphs(th)[card.biome]
    ELSE IF card.type \in DOMAIN th.TYPE_ICONS THEN th.TYPE_ICONS[card.type]
    ELSE IF card.school \in DOMAIN th.TYPE_ICONS THEN th.TYPE_ICONS[card.school]
    ELSE "bullet"

\* C15: where the small header icon is a glyph, draw_card draws the biome glyph
\* of a monster with a biome the theme has a glyph for, else the type glyph,
\* else the school glyph, else the bullet: a non-empty glyph, resolved without
\* failure also for a monster card with a biome set.
C15_HeaderGlyph ==
    (/\ pc = "side" /\ Len(cur) >= 1
     /\ GlyphDraws(env) /\ ~IconExists(env, cards[1].type)) =>
        /\ HeaderGlyph(cards[1], theme) # ""
        /\ OpsOfKind(cur[1], {"small_image", "small_glyph"})
              = {Op("small_glyph", HeaderGlyph(cards[1], theme))}

\* One icon slot of a draw call: it never shows both an image and a glyph,
\* and when its raster file exists but cannot be drawn it shows the glyph, or
\* nothing when the glyph cannot be drawn either.
SlotFallsBack(pl, key, image, glyph) ==
    LET shown == OpsOfKind(pl, {image, glyph})
    IN  /\ Cardinality(shown) <= 1
        /\ (IconExists(env, key) /\ ~ImageDraws(env, key)) =>
              IF GlyphDraws(env)
              THEN \E op \in shown : op.kind = glyph
              ELSE shown = {}

\* C16: in every draw call each icon slot (large front icon, small header
\* icon, back icon) falls back from a raster that cannot be drawn to the glyph,
\* and is skipped when the glyph cannot be drawn either; the call goes on
\* with the rest of the card and returns normally.
C16_IconFallback ==
    \A i \in DOMAIN cur :
        /\ cur[i].raised = ""
        /\ cur[i].side = "front" =>
              /\ cards[cur[i].card].front_icon # "" =>
                    SlotFallsBack(cur[i], cards[cur[i].card].front_icon,
                                  "large_image", "large_glyph")
              /\ SlotFallsBack(cur[i], cards[cur[i].card].type, "small_image", "small_glyph")
        /\ (cur[i].side = "back" /\ cur[i].card # 0) =>
              SlotFallsBack(cur[i], BackImage(Some(cards[cur[i].card]), env),
                            "back_image", "back_glyph")

\* C17: render_pdf emits the pages front(0), back(0), ..., front(T-1), back(T-1)
\* in this order and saves the document exactly once, after the last back
\* page; nothing is drawn and no page emitted after the save.
C17_PageOrder ==
    LET T == TotalPages(Len(cards), cfg)
    IN  /\ \A k \in DOMAIN doc :
              /\ doc[k].side = (IF k % 2 = 1 THEN "front" ELSE "back")
              /\ doc[k].index = (k - 1) \div 2
        /\ fs.saved <= 1
        /\ fs.saved = 1 => (pc = "done" /\ cur = <<>> /\ Len(doc) = 2 * T)
        /\ (Terminal /\ Accepted) => (fs.saved = 1 /\ Len(doc) = 2 * T)

\* C18: a finished run on 10 ability cards of cost 0 on the 3x3 grid has
\* emitted 4 pages; the front of the 10th card is in row 0, column 0 of the
\* second front page, which shows no other card; the second back page shows
\* 1 real back and 8 empty backs; no cost glyph is on any page.
C18_TenAbilities ==
    (/\ cards = TenAbilities /\ cfg.GRID_COLS = 3 /\ cfg.GRID_ROWS = 3
     /\ Terminal /\ Accepted) =>
        /\ Len(doc) = 4
        /\ \E pl \in PageCalls("front", 1) :
              pl.card = 10 /\ pl.pos = 0 /\ pl.row = 0 /\ pl.col = 0 /\ pl.raised = ""
        /\ Cardinality(PageCalls("front", 1)) = 1
        /\ Cardinality({pl \in PageCalls("back", 1) : pl.card = 10}) = 1
        /\ Cardinality({pl \in PageCalls("back", 1) : pl.card = 0}) = 8
        /\ \A pl \in DrawnSet : OpsOfKind(pl, {"cost", "back_cost"}) = {}

\* C19: the front of a monster with hp 5, attack 2, loot-budget 3 and no biome
\* shows a stats row with the three values 5, 2 and 3; only a monster gets a
\* stats row; the top-right glyph of a monster with a loot-budget shows the
\* loot-budget in place of the cost.
C19_MonsterStats ==
    (pc = "side" /\ Len(cur) >= 1) =>
        LET card == cards[1]
            stats == OpsOfKind(cur[1], {"stats"})
        IN  /\ (/\ card.type = "monster" /\ card.biome = ""
                /\ card.hp = Some(5) /\ card.atk = Some(2) /\ card.lootBudget = Some(3)) =>
                  \E op \in stats :
                      {<<op.items[j].field, op.items[j].num>> : j \in DOMAIN op.items}
                          = {<<"hp", 5>>, <<"atk", 2>>, <<"lootBudget", 3>>}
            /\ card.type # "monster" => stats = {}
            /\ (card.type = "monster" /\ card.lootBudget # None) =>
                  \A op \in OpsOfKind(cur[1], {"cost"}) :
                      op.items[1].num = card.lootBudget[1]

\* C20: output generation is deterministic and idempotent: a second run of
\* render_pdf in the same process, on the same inputs and files, is not
\* influenced by what the first run left behind (the font globals changed by
\* ensure_fonts): every run draws its text and glyphs with the same fonts as
\* the first, and so produces the same artifact.
C20_SameFontsEveryRun == \A i \in DOMAIN runs : runs[i] = runs[1]

\* What a Card shows of itself: its fields and the tags its tags field holds.
CopyView(j) ==
    [card |-> cards[j], tags |-> IF tagsOf[j] = 0 THEN None ELSE Some(heap[tagsOf[j]])]

\* The <card> element each parsed Card was built from.
DefOf(j) == TagsOfCards(xml, 1)[j]

\* C21: the Cards parse_cards built from one card definition are independent
\* instances: a change of a field of one copy, an added or a removed tag of its
\* tag collection included, leaves every other copy of the definition unchanged.
C21_CopiesIndependent ==
    [][\A i \in 0..(Len(cards) - 1) :
          (EditField(i) \/ RebindTags(i) \/ EditTags(i)) =>
              \A j \in DOMAIN cards :
                  (j # i + 1 /\ DefOf(j) = DefOf(i + 1)) => CopyView(j)' = CopyView(j)]_vars

\* ls is, paragraph by paragraph, the lines of the paragraphs, and no line
\* followed by a line of its paragraph has room for a space and the first
\* word of that line.
RECURSIVE GreedyKept(_, _)
GreedyKept(ls, paras) ==
    IF paras = <<>> THEN ls = <<>>
    ELSE IF Strip(Head(paras)) = <<>>
         THEN ls # <<>> /\ Head(ls) = <<>> /\ GreedyKept(Tail(ls), Tail(paras))
    ELSE \E k \in 1..Len(ls) :
            /\ \A i \in 1..k : ls[i] # <<>>
            /\ SplitWords(Join(SubSeq(ls, 1, k))) = SplitWords(Head(paras))
            /\ \A i \in 1..(k - 1) :
                  StringWidth(ls[i] \o <<"SP">> \o SplitWords(ls[i + 1])[1], BODY_SIZE)
                      > max_width
            /\ GreedyKept(SubSeq(ls, k + 1, Len(ls)), Tail(paras))

\* C22: wrap_text is greedy: within a paragraph, every output line that is
\* followed by another line of the paragraph would measure more than max_width
\* with a single space and the first word of the following line appended.
C22_Greedy == pc = "wrapped" => GreedyKept(lines, InputParagraphs)

\* C22 witness: a paragraph of three words wrapped into a one-word line that
\* fits with room to spare for a space, and a line of the two other words.
C22_Witness ==
    /\ pc = "wrapped" /\ text # NoneText
    /\ \A i \in DOMAIN text : text[i] \notin {"NL", "BS"}
    /\ Len(InputWords) = 3
    /\ Len(lines) = 2 /\ Len(SplitWords(lines[1])) = 1 /\ Len(SplitWords(lines[2])) = 2
    /\ StringWidth(Append(lines[1], "SP"), BODY_SIZE) <= max_width

\* The body lines a call of draw_card drew, in the order drawn.
RECURSIVE BodyLinesOf(_)
BodyLinesOf(ops) ==
    IF ops = <<>> THEN <<>>
    ELSE (IF Head(ops).kind = "body" THEN <<Head(ops).line>> ELSE <<>>) \o BodyLinesOf(Tail(ops))

\* The distance from the top of the body area to the top of the footer zone.
AvailableHeight(card, w, h) == BodyTop(card, w, h) - (PADDING + FOOTER_H)

\* C23: draw_card draws at most floor(availableHeight / (BODY_SIZE + 2)) body
\* lines (no line when that is not positive), for every availableHeight,
\* also below one line height and not positive; the lines drawn are the first
\* lines of the wrapped text, in order.
C23_BodyLinesBound ==
    (pc = "side" /\ Len(cur) >= 1) =>
        LET card    == cards[1]
            drawn   == BodyLinesOf(cur[1].ops)
            wrapped == wrap_text(card.effect, cfg.CARD_W - 2 * PADDING, BODY_SIZE)
            avail   == AvailableHeight(card, cfg.CARD_W, cfg.CARD_H)
        IN  /\ Len(drawn) <= Max(0, avail \div ((BODY_SIZE + 2) * pt))
            /\ Len(drawn) <= Len(wrapped)
            /\ drawn = SubSeq(wrapped, 1, Len(drawn))

\* C24: for a grid slot with no card draw_back draws only the border, the
\* generic back pattern (glyph or image) and the brand label: no cost numeral,
\* no biome glyph and no deck-colored interior fill, with color and without.
C24_EmptyBackPlain ==
    \A i \in DOMAIN cur :
        (cur[i].side = "back" /\ cur[i].card = 0) =>
            /\ \A k \in DOMAIN cur[i].ops :
                  cur[i].ops[k].kind \in {"border", "back_glyph", "back_image", "label"}
            /\ OpsOfKind(cur[i], {"back_cost", "biome_glyph", "back_fill"}) = {}

\* C25: the card sequence and the icon theme are read-only inputs of the
\* engine: no step of render_pdf, with the calls of draw_card, draw_back,
\* icon_for and wrap_text it makes, changes a field of a Card, the tags a Card
\* holds, the order or length of the card sequence, or an entry of the theme.
C25_InputsReadOnly ==
    [][/\ cards' = cards
       /\ tagsOf' = tagsOf /\ heap' = heap
       /\ theme' = theme]_vars

\* C25 witness: in color mode draw_card has drawn, body text included, a card
\* that names no deck, and the header band in the color of the deck "loot".
C25_Witness ==
    /\ color /\ Len(cards) >= 1
    /\ \E i \in DOMAIN cur :
          /\ cur[i].side = "front" /\ cards[cur[i].card].deck = ""
          /\ OpsOfKind(cur[i], {"body"}) # {}
          /\ OpsOfKind(cur[i], {"header_band"})
                = {Op("header_band", Get(theme.DECK_COLORS, "loot", "whitesmoke"))}

\* C26: the standalone script mirrors the back columns like the package: in a
\* finished run of its render_pdf the back of the card whose front is at row r,
\* column c is at row r, column cols-1-c of the back page of the same index, in
\* the cell the package puts it in.
C26_ScriptMirrors ==
    pc = "done" =>
        \A f \in DrawnSet :
            f.side = "front" =>
                \E b \in PageCalls("back", f.page) :
                    /\ b.card = f.card
                    /\ b.row = f.row
                    /\ b.col = MirrorCol(f.pos, cfg)
                    /\ b.x = CellX(MirrorCol(f.pos, cfg), cfg, FALSE)
                    /\ b.y = CellY(Row(f.pos, cfg), cfg, FALSE)

\* The draw calls of the run, by position in the order they were made, that
\* drew the given side of the given card (card 0: an empty back).
CallsOf(side, idx) == {k \in DOMAIN Drawn : Drawn[k].side = side /\ Drawn[k].card = idx}

\* C27: a run of render_pdf on n cards that got past the layout check is
\* complete, and in it every card i in [0, n) has its front drawn exactly once
\* and its back exactly once, both in page pair i div (cols*rows), the front
\* at row (i mod (cols*rows)) div cols and column i mod cols; exactly
\* T*cols*rows - n empty backs are drawn, T the number of page pairs.
C27_EveryCardOnce ==
    (Terminal /\ Accepted) =>
        LET cpp == CardsPerPage(cfg)
            T   == TotalPages(Len(cards), cfg)
        IN  /\ pc = "done"
            /\ \A i \in 0..(Len(cards) - 1) :
                  /\ Cardinality(CallsOf("front", i + 1)) = 1
                  /\ Cardinality(CallsOf("back", i + 1)) = 1
                  /\ \A k \in CallsOf("front", i + 1) :
                        /\ Drawn[k].raised = ""
                        /\ Drawn[k].page = i \div cpp
                        /\ Drawn[k].row = (i % cpp) \div cfg.GRID_COLS
                        /\ Drawn[k].col = i % cfg.GRID_COLS
                  /\ \A k \in CallsOf("back", i + 1) :
                        Drawn[k].raised = "" /\ Drawn[k].page = i \div cpp
            /\ Cardinality(CallsOf("back", 0)) = T * cpp - Len(cards)

\* C28: on the front of a monster card with stats the stats row is drawn and
\* no body line collides with it: the baseline of every body line drawn lies
\* above the baseline of the stats row, by the stats font size, a point at
\* least; for every number of body lines, with and without a large front icon.
C28_BodyAboveStats ==
    (/\ pc = "side" /\ Len(cur) >= 1
     /\ cards[1].type = "monster"
     /\ (cards[1].hp # None \/ cards[1].atk # None \/ cards[1].lootBudget # None)) =>
        /\ OpsOfKind(cur[1], {"stats"}) # {}
        /\ \A st \in OpsOfKind(cur[1], {"stats"}), ln \in OpsOfKind(cur[1], {"body"}) :
              ln.y >= st.y + 1 * pt

\* The <card> element that differs from node only in whether it carries a
\* front_icon attribute.
IconTwin(node) == [node EXCEPT !.front_icon = IF node.front_icon = "" THEN "sword" ELSE ""]

\* C29: the kind parse_cards assigns does not depend on the front icon: a
\* <card> element without a <loot> child and the element that differs from it
\* only in its front_icon attribute get the same type and the same deck; with
\* a <monster> child and no type attribute both are of type monster and deck
\* monster.
C29_KindIgnoresIcon ==
    (pc = "side" /\ Len(xml) = 1 /\ xml[1].loot = None) =>
        LET twin == parse_cards(<<IconTwin(xml[1])>>, theme)[1]
        IN  /\ cards[1].type = twin.type
            /\ cards[1].deck = twin.deck
            /\ ("monster" \in DOMAIN xml[1].children /\ xml[1].type = "") =>
                   cards[1].type = "monster" /\ cards[1].deck = "monster"

\* C29 holds for the elements without a variant child.
C29_NoVariant ==
    (pc = "side" /\ Len(xml) = 1 /\ xml[1].loot = None /\ FirstVariant(xml[1]) = "") =>
        LET twin == parse_cards(<<IconTwin(xml[1])>>, theme)[1]
        IN  cards[1].type = twin.type /\ cards[1].deck = twin.deck

\* The glyph of the back of a card when the explicit back-icon step is left
\* out: deck glyph, else the loot glyph for a loot kind, else the type glyph.
BackGlyphNoExplicit(card, th) ==
    LET dflt == Get(th.BACK_DECK_ICONS, "loot", Get(th.TYPE_ICONS, "coin", "diamond"))
    IN  IF card.deck # "" /\ card.deck \in DOMAIN th.BACK_DECK_ICONS
        THEN FirstChar(th.BACK_DECK_ICONS[card.deck])
        ELSE IF card.type \in DOMAIN th.LOOT_FRONT_DEFAULTS THEN FirstChar(dflt)
        ELSE FirstChar(icon_for(card, th))

====
